---------------------------- MODULE Spec2Model ----------------------------
(***************************************************************************)
(* MelodyLingo: a model of the AI completion gateway (callAI), the         *)
(* response interpreter (JSON-by-regex and the Score/Correct/Reason        *)
(* template parser), the word/source/song store with its cascading song    *)
(* deletion, and the quiz screens (Arena, Practice, Treasury, Review).     *)
(*                                                                         *)
(* The module holds several specifications over one set of variables:      *)
(*   SpecAI    - one callAI invocation after another                       *)
(*   SpecParse - the interpreter applied to bounded completion texts       *)
(*   Spec      - the word bank: extraction runs and deletions              *)
(*   SpecQuiz  - quiz sessions, evaluation calls in flight, wrong answers  *)
(*   SpecLoop  - the extraction loop of handleProcess with its thresholds  *)
(*   SpecBoot  - start-up loading and the store's mutating operations      *)
(*   SpecStorage - StorageService save and get over JSON text              *)
(* Each specification leaves the other components' variables untouched.    *)
(***************************************************************************)
EXTENDS Integers, Sequences, FiniteSets, TLC

VARIABLES
    \* ---- Unified Completion Gateway (services/aiClient.ts) ----
    aiPc,        \* "idle" | "awaiting" | "done": position of the callAI invocation
    aiSettings,  \* the settings argument of the invocation
    aiNet,       \* requests issued on the provider client by this invocation
    aiThrown,    \* TRUE once an exception was raised inside this invocation
    aiResult     \* what the promise settled to

VARIABLES
    \* ---- Response Interpreter (services/gemini.ts) ----
    ppc,         \* "input" | "done": the interpreter has not / has been applied
    pfun,        \* the service function applied
    pin,         \* how the completion text was put together
    ptext,       \* the completion text: callAI's text, a sequence of tokens
    pres         \* what the function returned

VARIABLES
    \* ---- Word bank (store/index.ts, FactoryScreen, HistoryScreen, Treasury) ----
    words,       \* useAppStore words: records [id, word]
    sources,     \* useAppStore sources: records [id, wordId, songTitle]
    songs,       \* useAppStore songs: records [id, title]
    stWords,     \* the list persisted under the words key
    stSources,   \* the list persisted under the sources key
    stSongs,     \* the list persisted under the songs key
    factory,     \* the handleProcess run: its position and its local variables
    alert,       \* the confirmation dialog on screen with the lists its handler closed over
    runs,        \* extraction runs started so far
    sop          \* the handler that took the last step on the word bank

VARIABLES
    \* ---- Quiz screens and the wrong-answer log ----
    q,              \* local state of the screen in use
    evalReq,        \* the evaluation call in flight with what its handler closed over
    genReqs,        \* the sentence / question generation calls in flight
    wrongAnswers,   \* useAppStore wrongAnswers
    stWrongAnswers, \* the list persisted under the wrong-answers key
    waNext,         \* wrong answers built so far, plus one
    qev             \* the last step of a quiz screen: handler, result, request

VARIABLES
    \* ---- Start-up, the rest of the store, StorageService ----
    blacklist,    \* useAppStore blacklist: records [id, word]
    stBlacklist,  \* the list persisted under the blacklist key
    settings,     \* useAppStore settings
    stSettings,   \* the object persisted under the settings key
    isLoading,    \* useAppStore isLoading
    absent,       \* the keys AsyncStorage holds nothing under
    boot,         \* the App effect: its position, the store operation done last
    io            \* the StorageService call made last: argument, outcome, result

aiVars == <<aiPc, aiSettings, aiNet, aiThrown, aiResult>>

parseVars == <<ppc, pfun, pin, ptext, pres>>

storeVars == <<words, sources, songs, stWords, stSources, stSongs,
               factory, alert, runs, sop>>

quizVars == <<q, evalReq, genReqs, wrongAnswers, stWrongAnswers, waNext, qev>>

persistVars == <<blacklist, stBlacklist, settings, stSettings, isLoading,
                 absent, boot, io>>

\* What each component leaves alone.
notAI == <<parseVars, storeVars, quizVars, persistVars>>

notParse == <<aiVars, storeVars, quizVars, persistVars>>

notStore == <<aiVars, parseVars, quizVars, persistVars>>

notQuiz == <<aiVars, parseVars, storeVars, persistVars>>

vars == <<aiPc, aiSettings, aiNet, aiThrown, aiResult,
          ppc, pfun, pin, ptext, pres,
          words, sources, songs, stWords, stSources, stSongs,
          factory, alert, runs, sop,
          q, evalReq, genReqs, wrongAnswers, stWrongAnswers, waNext, qev,
          blacklist, stBlacklist, settings, stSettings, isLoading,
          absent, boot, io>>

--------------------------------------------------------------------------
(***************************************************************************)
(* Unified Completion Gateway: callAI                                      *)
(***************************************************************************)

Providers == {"gemini", "nvidia", "opencode"}

\* apiProvider as destructured from `settings || {}`: a supported provider,
\* undefined ("unset"), or a string that is none of the three ("other").
ProviderIds == Providers \cup {"unset", "other"}

\* An API key is the empty string (also what `key || ''` makes of undefined)
\* or some non-empty string.
Keys == {"", "k"}

\* given = FALSE is the call without a settings argument: every destructured
\* field is undefined.
SettingsSet ==
    {s \in [given : BOOLEAN, apiProvider : ProviderIds, geminiApiKey : Keys,
            nvidiaApiKey : Keys, opencodeApiKey : Keys] :
        (~s.given) => /\ s.apiProvider = "unset"
                      /\ s.geminiApiKey = "" /\ s.nvidiaApiKey = ""
                      /\ s.opencodeApiKey = ""}

NoSettings ==
    [given |-> FALSE, apiProvider |-> "unset", geminiApiKey |-> "",
     nvidiaApiKey |-> "", opencodeApiKey |-> ""]

\* The branch callAI takes: `!apiProvider || apiProvider === 'gemini'`, then
\* 'nvidia', then 'opencode', otherwise the fall-through.
SelectedProvider(s) ==
    IF s.apiProvider \in {"unset", "gemini"} THEN "gemini"
    ELSE IF s.apiProvider = "nvidia" THEN "nvidia"
    ELSE IF s.apiProvider = "opencode" THEN "opencode"
    ELSE "none"

\* The key the selected branch reads.
SelectedKey(s) ==
    IF SelectedProvider(s) = "gemini" THEN s.geminiApiKey
    ELSE IF SelectedProvider(s) = "nvidia" THEN s.nvidiaApiKey
    ELSE IF SelectedProvider(s) = "opencode" THEN s.opencodeApiKey
    ELSE ""

\* Values a provider SDK or fetch can throw: an Error with a message, an
\* Error whose message is empty, a thrown string, a thrown empty string,
\* and null/undefined.
Exceptions == {"ErrorWithMessage", "ErrorEmptyMessage", "String", "EmptyString", "Nullish"}

\* error?.message || error?.toString() || 'Unknown error'
ErrorMessage(e) ==
    IF e = "ErrorWithMessage" THEN "message"
    ELSE IF e = "ErrorEmptyMessage" THEN "Error"
    ELSE IF e = "String" THEN "thrown"
    ELSE "Unknown error"

\* A settled promise: status "resolved" carries {text, error}; error is the
\* sequence of the pieces the template string concatenates, <<>> when the
\* field is absent.
NoResult == [status |-> "none", text |-> "", error |-> <<>>]

Resolved(text, error) == [status |-> "resolved", text |-> text, error |-> error]

Rejected == [status |-> "rejected", text |-> "", error |-> <<>>]

\* Length of the error string: it is non-empty iff some piece is.
NonEmptyError(r) == \E i \in 1..Len(r.error) : r.error[i] /= ""

CatchResult_rethrow(e) == Rejected

\* catch (error) { return { text: '', error: `API请求失败: ${errorMessage}` } }
\* (the prefix is written in ASCII here)
CatchResult(e) == Resolved("", <<"API request failed: ", ErrorMessage(e)>>)

\* The key check of a branch: nvidia and opencode return early on an empty
\* key, the gemini branch has no such check.
MissingKeyReturn(s) ==
    IF SelectedProvider(s) = "nvidia" /\ s.nvidiaApiKey = ""
        THEN <<TRUE, Resolved("", <<"NVIDIA API key is missing">>)>>
    ELSE IF SelectedProvider(s) = "opencode" /\ s.opencodeApiKey = ""
        THEN <<TRUE, Resolved("", <<"OpenCode API key is missing">>)>>
    ELSE <<FALSE, NoResult>>

AIInit ==
    /\ aiPc = "idle"
    /\ aiSettings = NoSettings
    /\ aiNet = 0
    /\ aiThrown = FALSE
    /\ aiResult = NoResult

\* The interpreter at rest, for the specifications that do not use it.
ParseIdle ==
    /\ ppc = "input"
    /\ pfun = "none"
    /\ pin = [kind |-> "none"]
    /\ ptext = <<>>
    /\ pres = [outcome |-> "none"]

\* The word bank: no dialog, no run.
NoAlert ==
    [kind |-> "none", song |-> 0, ids |-> {}, songs |-> {}, words |-> {},
     sources |-> {}]

FactoryIdle ==
    [pc |-> "idle", title |-> "", songs |-> {}, allWords |-> {}, run |-> 0,
     existingWords |-> {}, existingSources |-> {}, error |-> FALSE]

\* The word bank of a fresh install, for the specifications that do not use it.
StoreIdle ==
    /\ words = {} /\ sources = {} /\ songs = {}
    /\ stWords = {} /\ stSources = {} /\ stSongs = {}
    /\ factory = FactoryIdle
    /\ alert = NoAlert
    /\ runs = 0
    /\ sop = "none"

\* The quiz screens at rest: Arena in front, nothing in flight, an empty log.
NoEvaluation ==
    [isCorrect |-> FALSE, score |-> 0, correctAnswer |-> "", error |-> FALSE,
     feedback |-> ""]

NoQuestion == <<0, 0>>

NoItem ==
    [id |-> 0, word |-> NoQuestion, userAnswer |-> "", correctAnswer |-> "",
     score |-> 0, errorType |-> "none"]

NoReq ==
    [scr |-> "none", sess |-> 0, idx |-> 0, score |-> 0, answer |-> "",
     mode |-> "none", item |-> NoItem]

\* The Alert a screen shows after the last question: none yet
NoSummary == [shown |-> FALSE, score |-> 0]

\* A screen before its first session: the useState initial values
QuizRest(s, n) ==
    [scr |-> s, step |-> "setup", mode |-> "fill", sess |-> n, len |-> 0,
     idx |-> 1, score |-> 0, result |-> "none", evaluating |-> FALSE,
     sentence |-> NoQuestion, question |-> NoQuestion, items |-> <<>>,
     summary |-> NoSummary]

NoEvent ==
    [op |-> "none", scr |-> "none", res |-> NoEvaluation, answer |-> "", req |-> NoReq]

QuizInit ==
    /\ q = QuizRest("Arena", 0)
    /\ evalReq = NoReq
    /\ genReqs = {}
    /\ wrongAnswers = {}
    /\ stWrongAnswers = {}
    /\ waNext = 1
    /\ qev = NoEvent

\* export const DEFAULT_SETTINGS, with the two fields the model keeps
DEFAULT_SETTINGS == [apiProvider |-> "gemini", aiStyle |-> "lyric"]

\* No StorageService call yet
NoCall == [op |-> "none", key |-> "none", failed |-> FALSE, arg |-> <<>>, ret |-> <<>>]

\* The app after start-up: nothing persisted beyond the word bank, default
\* settings, every key present
BootDone == [pc |-> "ready", op |-> "none", failed |-> {}, nextId |-> 1]

PersistIdle ==
    /\ blacklist = {} /\ stBlacklist = {}
    /\ settings = DEFAULT_SETTINGS /\ stSettings = DEFAULT_SETTINGS
    /\ isLoading = FALSE
    /\ absent = {}
    /\ boot = BootDone
    /\ io = NoCall

\* callAI up to its first await (or to its return when there is none): the
\* unknown provider falls through, a missing nvidia/opencode key returns
\* early, otherwise the client is created and the request is issued.
CallAIUnknownProvider(s) ==
    /\ UNCHANGED notAI
    /\ aiPc = "idle"
    /\ SelectedProvider(s) = "none"
    /\ aiSettings' = s
    /\ aiNet' = 0
    /\ aiThrown' = FALSE
    /\ aiResult' = Resolved("", <<"Unknown API provider">>)
    /\ aiPc' = "done"

CallAIMissingKey(s) ==
    /\ UNCHANGED notAI
    /\ aiPc = "idle"
    /\ SelectedProvider(s) /= "none"
    /\ MissingKeyReturn(s)[1]
    /\ aiSettings' = s
    /\ aiNet' = 0
    /\ aiThrown' = FALSE
    /\ aiResult' = MissingKeyReturn(s)[2]
    /\ aiPc' = "done"

\* Creating the client (new OpenAI / new GoogleGenerativeAI,
\* getGenerativeModel) throws inside the try block.
CallAICreateThrows(s, e) ==
    /\ UNCHANGED notAI
    /\ aiPc = "idle"
    /\ SelectedProvider(s) /= "none"
    /\ ~MissingKeyReturn(s)[1]
    /\ aiSettings' = s
    /\ aiNet' = 0
    /\ aiThrown' = TRUE
    /\ aiResult' = CatchResult(e)
    /\ aiPc' = "done"

\* model.generateContent(prompt) / client.chat.completions.create(...)
CallAIRequest(s) ==
    /\ UNCHANGED notAI
    /\ aiPc = "idle"
    /\ SelectedProvider(s) /= "none"
    /\ ~MissingKeyReturn(s)[1]
    /\ aiSettings' = s
    /\ aiNet' = 1
    /\ aiThrown' = FALSE
    /\ aiResult' = NoResult
    /\ aiPc' = "awaiting"

\* The awaited request resolves; text is result.response.text() or
\* completion.choices[0]?.message?.content || ''.
ProviderResponds(text) ==
    /\ UNCHANGED notAI
    /\ aiPc = "awaiting"
    /\ aiResult' = Resolved(text, <<>>)
    /\ aiPc' = "done"
    /\ UNCHANGED <<aiSettings, aiNet, aiThrown>>

\* The awaited request rejects, or reading the response throws.
ProviderThrows(e) ==
    /\ UNCHANGED notAI
    /\ aiPc = "awaiting"
    /\ aiThrown' = TRUE
    /\ aiResult' = CatchResult(e)
    /\ aiPc' = "done"
    /\ UNCHANGED <<aiSettings, aiNet>>

\* The caller has taken the result; the next invocation may start.
AIReturn ==
    /\ UNCHANGED notAI
    /\ aiPc = "done"
    /\ aiPc' = "idle"
    /\ UNCHANGED <<aiSettings, aiNet, aiThrown, aiResult>>

Texts == {"", "text"}

AINext ==
    \/ \E s \in SettingsSet : CallAIUnknownProvider(s)
    \/ \E s \in SettingsSet : CallAIMissingKey(s)
    \/ \E s \in SettingsSet, e \in Exceptions : CallAICreateThrows(s, e)
    \/ \E s \in SettingsSet : CallAIRequest(s)
    \/ \E t \in Texts : ProviderResponds(t)
    \/ \E e \in Exceptions : ProviderThrows(e)
    \/ AIReturn

AISpecInit == AIInit /\ ParseIdle /\ StoreIdle /\ QuizInit /\ PersistIdle

SpecAI == AISpecInit /\ [][AINext]_vars

--------------------------------------------------------------------------
\* C2: for every supported provider, callAI with an empty key for the
\* selected provider returns a result with a non-empty error and performs
\* no request on the provider client.
C2_EmptyKeyNoRequest ==
    (/\ aiPc \in {"awaiting", "done"}
     /\ SelectedProvider(aiSettings) \in Providers
     /\ SelectedKey(aiSettings) = "")
        => /\ aiNet = 0
           /\ aiPc = "done"
           /\ aiResult.status = "resolved"
           /\ NonEmptyError(aiResult)

\* C3: callAI never rejects; whenever an exception was raised while creating
\* the client or awaiting the request it resolves to text '' and a non-empty
\* error, for any provider and any settings, absent settings included.
C3_NeverRejects ==
    (aiPc = "done")
        => /\ aiResult.status = "resolved"
           /\ aiThrown => (aiResult.text = "" /\ NonEmptyError(aiResult))

C3_Witness ==
    /\ aiPc = "done"
    /\ aiThrown
    /\ aiNet = 1
    /\ ~aiSettings.given
    /\ aiResult.status = "resolved"

--------------------------------------------------------------------------
(***************************************************************************)
(* Response Interpreter                                                    *)
(*                                                                         *)
(* A completion text is a sequence of tokens.  One token is one character  *)
(* of a character class the regular expressions tell apart, or one of the  *)
(* three field keywords (matched ignoring case by the /i flag):            *)
(*   "sp" a blank, "nl" a line break, "q" a double quote, "/" a slash,     *)
(*   "0".."9" digits, "w" any other prose character,                       *)
(*   "Score:", "Correct:", "Reason:" the keywords,                         *)
(*   "[", "]", "{", "}", "," JSON punctuation, "k" a JSON member name with *)
(*   its colon, "v" a JSON scalar.                                         *)
(***************************************************************************)

Digits == {"0", "1", "2", "3", "4", "5", "6", "7", "8", "9"}

DigitVal(d) ==
    CASE d = "0" -> 0 [] d = "1" -> 1 [] d = "2" -> 2 [] d = "3" -> 3
      [] d = "4" -> 4 [] d = "5" -> 5 [] d = "6" -> 6 [] d = "7" -> 7
      [] d = "8" -> 8 [] d = "9" -> 9

RECURSIVE ParseInt(_)
\* parseInt(digits, 10) of a non-empty run of digits
ParseInt(ds) ==
    IF ds = <<>> THEN 0
    ELSE 10 * ParseInt(SubSeq(ds, 1, Len(ds) - 1)) + DigitVal(ds[Len(ds)])

\* \s
IsSpace(c) == c \in {"sp", "nl"}

\* The index after the longest run of characters of class InClass from i on.
SkipSpaces(t, i) ==
    CHOOSE j \in i..(Len(t) + 1) :
        /\ \A k \in i..(j - 1) : IsSpace(t[k])
        /\ (j = Len(t) + 1 \/ ~IsSpace(t[j]))

SkipDigits(t, i) ==
    CHOOSE j \in i..(Len(t) + 1) :
        /\ \A k \in i..(j - 1) : t[k] \in Digits
        /\ (j = Len(t) + 1 \/ t[j] \notin Digits)

\* [^"]+ : up to the next double quote, line breaks included
SkipNonQuote(t, i) ==
    CHOOSE j \in i..(Len(t) + 1) :
        /\ \A k \in i..(j - 1) : t[k] /= "q"
        /\ (j = Len(t) + 1 \/ t[j] = "q")

\* .+ : up to the end of the line
SkipNonNewline(t, i) ==
    CHOOSE j \in i..(Len(t) + 1) :
        /\ \A k \in i..(j - 1) : t[k] /= "nl"
        /\ (j = Len(t) + 1 \/ t[j] = "nl")

Min(S) == CHOOSE x \in S : \A y \in S : x <= y

Max(S) == CHOOSE x \in S : \A y \in S : x >= y

\* String.prototype.match without the g flag: NoMatch (null) or the capture
\* group of the leftmost match.
NoMatch == [found |-> FALSE, group |-> <<>>]

Match(g) == [found |-> TRUE, group |-> g]

\* /Score:\s*(\d+)\s*\/\s*100/i tried at position i
ScoreAt(t, i) ==
    LET a == SkipSpaces(t, i + 1)
        b == SkipDigits(t, a)
        c == SkipSpaces(t, b)
        d == SkipSpaces(t, c + 1)
    IN  IF /\ t[i] = "Score:"
           /\ b > a
           /\ c <= Len(t) /\ t[c] = "/"
           /\ d + 2 <= Len(t)
           /\ t[d] = "1" /\ t[d + 1] = "0" /\ t[d + 2] = "0"
        THEN Match(SubSeq(t, a, b - 1))
        ELSE NoMatch

\* /Correct:\s*"([^"]+)"/i tried at position i
CorrectAt(t, i) ==
    LET a == SkipSpaces(t, i + 1)
        b == SkipNonQuote(t, a + 1)
    IN  IF /\ t[i] = "Correct:"
           /\ a <= Len(t) /\ t[a] = "q"
           /\ b > a + 1
           /\ b <= Len(t)
        THEN Match(SubSeq(t, a + 1, b - 1))
        ELSE NoMatch

\* /Reason:\s*(.+)/i tried at position i: \s* is greedy and gives characters
\* back until (.+) finds a character that is not a line break.
ReasonAt(t, i) ==
    LET a == SkipSpaces(t, i + 1)
        starts == {j \in (i + 1)..a : j <= Len(t) /\ t[j] /= "nl"}
    IN  IF t[i] = "Reason:" /\ starts /= {}
        THEN Match(SubSeq(t, Max(starts), SkipNonNewline(t, Max(starts)) - 1))
        ELSE NoMatch

ScoreMatch(t) ==
    LET S == {i \in 1..Len(t) : ScoreAt(t, i).found}
    IN  IF S = {} THEN NoMatch ELSE ScoreAt(t, Min(S))

CorrectMatch(t) ==
    LET S == {i \in 1..Len(t) : CorrectAt(t, i).found}
    IN  IF S = {} THEN NoMatch ELSE CorrectAt(t, Min(S))

ReasonMatch(t) ==
    LET S == {i \in 1..Len(t) : ReasonAt(t, i).found}
    IN  IF S = {} THEN NoMatch ELSE ReasonAt(t, Min(S))

\* String.prototype.trim on a capture that holds no line break
Trim(g) ==
    LET N == {i \in 1..Len(g) : ~IsSpace(g[i])}
    IN  IF N = {} THEN <<>> ELSE SubSeq(g, Min(N), Max(N))

\* '无法评估答案', the feedback when no Reason is found
GenericFeedback == <<"cannot evaluate the answer">>

PassScore == 70

\* parseTranslationResponse(response, userAnswer)
parseTranslationResponse(response) ==
    LET scoreMatch == ScoreMatch(response)
        correctMatch == CorrectMatch(response)
        reasonMatch == ReasonMatch(response)
        score == IF scoreMatch.found THEN ParseInt(scoreMatch.group) ELSE 0
    IN  [outcome |-> "returned",
         isCorrect |-> score >= PassScore,
         score |-> score,
         correctAnswer |-> IF correctMatch.found THEN correctMatch.group ELSE <<>>,
         feedback |-> IF reasonMatch.found THEN Trim(reasonMatch.group)
                      ELSE GenericFeedback]

\* text.match(/\[[\s\S]*\]/) and text.match(/\{[\s\S]*\}/): from the first
\* opening bracket to the last closing bracket after it.
BracketSpan_toEnd(t, open, close) ==
    LET O == {i \in 1..Len(t) : t[i] = open}
    IN  IF O = {} THEN NoMatch ELSE Match(SubSeq(t, Min(O), Len(t)))

BracketSpan(t, open, close) ==
    LET O == {i \in 1..Len(t) : t[i] = open}
        C == {j \in 1..Len(t) : t[j] = close /\ O /= {} /\ j > Min(O)}
    IN  IF O = {} \/ C = {} THEN NoMatch
        ELSE Match(SubSeq(t, Min(O), Max(C)))

\* JSON.parse over the token grammar
\*   value  ::= "v" | "[" "]" | "[" value ("," value)* "]"
\*            | "{" "}" | "{" "k" value ("," "k" value)* "}"
\* with blanks allowed between tokens.  Each operator returns the index
\* after what it parsed, 0 when the text is not of that form.
RECURSIVE PValue(_, _), PElems(_, _), PMembers(_, _)
PValue(s, i) ==
    LET j == SkipSpaces(s, i)
    IN  IF j > Len(s) THEN 0
        ELSE IF s[j] = "v" THEN j + 1
        ELSE IF s[j] = "[" THEN
            LET k == SkipSpaces(s, j + 1)
            IN  IF k <= Len(s) /\ s[k] = "]" THEN k + 1 ELSE PElems(s, j + 1)
        ELSE IF s[j] = "{" THEN
            LET k == SkipSpaces(s, j + 1)
            IN  IF k <= Len(s) /\ s[k] = "}" THEN k + 1 ELSE PMembers(s, j + 1)
        ELSE 0

PElems(s, i) ==
    LET n == PValue(s, i)
    IN  IF n = 0 THEN 0
        ELSE LET j == SkipSpaces(s, n)
             IN  IF j > Len(s) THEN 0
                 ELSE IF s[j] = "]" THEN j + 1
                 ELSE IF s[j] = "," THEN PElems(s, j + 1)
                 ELSE 0

PMembers(s, i) ==
    LET j == SkipSpaces(s, i)
    IN  IF j > Len(s) \/ s[j] /= "k" THEN 0
        ELSE LET n == PValue(s, j + 1)
             IN  IF n = 0 THEN 0
                 ELSE LET m == SkipSpaces(s, n)
                      IN  IF m > Len(s) THEN 0
                          ELSE IF s[m] = "}" THEN m + 1
                          ELSE IF s[m] = "," THEN PMembers(s, m + 1)
                          ELSE 0

\* The parsed value is written as its tokens without the blanks.
Content(s) == SelectSeq(s, LAMBDA c : ~IsSpace(c))

\* JSON.parse: the value, or a thrown SyntaxError
JSONParse(s) ==
    LET n == PValue(s, 1)
    IN  IF n /= 0 /\ SkipSpaces(s, n) = Len(s) + 1
        THEN [ok |-> TRUE, value |-> Content(s)]
        ELSE [ok |-> FALSE, value |-> <<>>]

\* What a service function returns: outcome "parsed" with the payload it
\* built its result from, "noSpan" with the fallback of the missing match,
\* "caught" with the fallback of its catch block (which carries `error`).
Returned(outcome, value, hasError) ==
    [outcome |-> outcome, value |-> value, error |-> hasError]

EmptyWordList == <<"[", "]">>

\* { isCorrect: false, score: 0, feedback: '无法评估答案' }
FallbackEvaluation == <<"isCorrect:false", "score:0", "feedback:cannot evaluate">>

\* { isCorrect: false, score: 0, feedback: `评估出错: ...`, error: ... }
CaughtEvaluation == <<"isCorrect:false", "score:0", "feedback:evaluation failed">>

\* { sentence: '____', sentenceZh: meaning, options }
PlaceholderSentence == <<"sentence:____", "sentenceZh:meaning", "options">>

\* { sentence: '____', sentenceZh: meaning, options: [], error }
CaughtSentence == <<"sentence:____", "sentenceZh:meaning", "options:[]">>

\* { word, sentenceZh: meaning }
PlaceholderQuestion == <<"word", "sentenceZh:meaning">>

Caught_rethrow(fallback) == Returned("rejected", <<>>, TRUE)

\* catch (error: any) { ... return fallback with `error` }: the thrown
\* SyntaxError ends in the function's own catch block
Caught(fallback) == Returned("caught", fallback, TRUE)

\* extractVocabulary after callAI returned { text } without error
extractVocabulary(text) ==
    IF text = <<>> THEN Returned("noText", EmptyWordList, FALSE)
    ELSE LET jsonMatch == BracketSpan(text, "[", "]")
         IN  IF ~jsonMatch.found THEN Returned("noSpan", EmptyWordList, FALSE)
             ELSE IF JSONParse(jsonMatch.group).ok
                  THEN Returned("parsed", JSONParse(jsonMatch.group).value, FALSE)
                  ELSE Caught(EmptyWordList)

\* evaluateAnswer after callAI returned { text } without error
evaluateAnswer(text) ==
    LET jsonMatch == BracketSpan(text, "{", "}")
    IN  IF ~jsonMatch.found THEN Returned("noSpan", FallbackEvaluation, FALSE)
        ELSE IF JSONParse(jsonMatch.group).ok
             THEN Returned("parsed", JSONParse(jsonMatch.group).value, FALSE)
             ELSE Caught(CaughtEvaluation)

\* generatePracticeSentence after callAI returned { text } without error
generatePracticeSentence(text) ==
    LET jsonMatch == BracketSpan(text, "{", "}")
    IN  IF ~jsonMatch.found THEN Returned("noSpan", PlaceholderSentence, FALSE)
        ELSE IF JSONParse(jsonMatch.group).ok
             THEN Returned("parsed", JSONParse(jsonMatch.group).value, FALSE)
             ELSE Caught(CaughtSentence)

\* generateTranslateQuestion after callAI returned { text } without error
generateTranslateQuestion(text) ==
    LET jsonMatch == BracketSpan(text, "{", "}")
    IN  IF ~jsonMatch.found THEN Returned("noSpan", PlaceholderQuestion, FALSE)
        ELSE IF JSONParse(jsonMatch.group).ok
             THEN Returned("parsed", JSONParse(jsonMatch.group).value, FALSE)
             ELSE Caught(PlaceholderQuestion)

\* ---- the completion texts the interpreter is applied to ----

MaxField == 2   \* longest correct answer / reason of a template text
MaxLines == 2   \* most lines of a line-built text
MaxProse == 1   \* longest prose before and after a JSON payload
MaxNoSpan == 2  \* longest text without a bracketed span

\* All sequences over S of length lo..hi
SeqsOf(S, lo, hi) == UNION {[1..n -> S] : n \in lo..hi}

RECURSIVE JoinLines(_)
\* lines.join('\n')
JoinLines(ls) ==
    IF ls = <<>> THEN <<>>
    ELSE IF Len(ls) = 1 THEN ls[1]
    ELSE ls[1] \o <<"nl">> \o JoinLines(Tail(ls))

\* N of 'Score: N/100': the number and its decimal digits; the model may
\* write any digits before the slash
ScoreSamples ==
    {[val |-> 0, digits |-> <<"0">>],
     [val |-> 40, digits |-> <<"4", "0">>],
     [val |-> 69, digits |-> <<"6", "9">>],
     [val |-> 70, digits |-> <<"7", "0">>],
     [val |-> 72, digits |-> <<"7", "2">>],
     [val |-> 100, digits |-> <<"1", "0", "0">>],
     [val |-> 150, digits |-> <<"1", "5", "0">>]}

\* C of 'Correct: "C"': a non-empty answer without a double quote; it may
\* contain the word Reason: .
CorrectSamples == SeqsOf({"w", "sp", "Reason:"}, 1, MaxField)

\* R of 'Reason: R': a non-empty reason on one line, without blanks at its
\* ends.
ReasonSamples ==
    {r \in SeqsOf({"w", "sp", "q"}, 1, MaxField) : Trim(r) = r}

ScoreLine(n) == <<"Score:", "sp">> \o n.digits \o <<"/", "1", "0", "0">>

CorrectLine(c) == <<"Correct:", "sp", "q">> \o c \o <<"q">>

ReasonLine(r) == <<"Reason:", "sp">> \o r

TemplateInputs ==
    {[kind |-> "template", n |-> n, c |-> c, r |-> r] :
        n \in ScoreSamples, c \in CorrectSamples, r \in ReasonSamples}

TemplateText(in) ==
    JoinLines(<<ScoreLine(in.n), CorrectLine(in.c), ReasonLine(in.r)>>)

\* Lines a completion may hold: field lines, prose, a correct answer that
\* quotes the word Reason:, and prose that mentions a score.
LineSet ==
    {ScoreLine([val |-> 72, digits |-> <<"7", "2">>]),
     ScoreLine([val |-> 40, digits |-> <<"4", "0">>]),
     CorrectLine(<<"w">>),
     CorrectLine(<<"Reason:", "sp", "w">>),
     ReasonLine(<<"w">>),
     <<"w", "sp", "w">>,
     <<"w", "sp">> \o ScoreLine([val |-> 10, digits |-> <<"1", "0">>])}

LineInputs ==
    {[kind |-> "lines", lines |-> ls] : ls \in SeqsOf(LineSet, 0, MaxLines)}

ArrayPayloads ==
    {<<"[", "]">>, <<"[", "v", "]">>, <<"[", "{", "k", "v", "}", "]">>,
     <<"[", "v", ",", "sp", "v", "]">>}

ObjectPayloads ==
    {<<"{", "}">>, <<"{", "k", "v", "}">>, <<"{", "k", "[", "v", "]", "}">>,
     <<"{", "k", "v", ",", "sp", "k", "v", "}">>}

ProseChars == {"w", "sp", "nl", "[", "]", "{", "}"}

Prose == SeqsOf(ProseChars, 0, MaxProse)

JsonInputs ==
    {[kind |-> "json", prefix |-> a, payload |-> p, suffix |-> b] :
        a \in Prose, p \in ArrayPayloads \cup ObjectPayloads, b \in Prose}

JsonText(in) == in.prefix \o in.payload \o in.suffix

\* The text holds an opening bracket with its closing bracket somewhere after
HasSpan(t) ==
    \E i, j \in 1..Len(t) :
        /\ i < j
        /\ \/ t[i] = "[" /\ t[j] = "]"
           \/ t[i] = "{" /\ t[j] = "}"

\* Non-empty texts without a bracketed span
NoSpanInputs ==
    {[kind |-> "nospan", text |-> t] :
        t \in {u \in SeqsOf(ProseChars \cup {"v", ","}, 1, MaxNoSpan) : ~HasSpan(u)}}

TextOf(in) ==
    IF in.kind = "template" THEN TemplateText(in)
    ELSE IF in.kind = "lines" THEN JoinLines(in.lines)
    ELSE IF in.kind = "json" THEN JsonText(in)
    ELSE in.text

JsonFunctions ==
    {"extractVocabulary", "evaluateAnswer", "generatePracticeSentence",
     "generateTranslateQuestion"}

\* The payload a function's prompt asks for: extractVocabulary an array, the
\* others an object.
Expects(f, p) ==
    IF f = "extractVocabulary" THEN p \in ArrayPayloads ELSE p \in ObjectPayloads

ParseInit ==
    /\ ppc = "input"
    /\ pres = [outcome |-> "none"]
    /\ \/ /\ pin \in TemplateInputs \cup LineInputs
          /\ pfun = "evaluateTranslation"
       \/ /\ pin \in JsonInputs
          /\ pfun \in JsonFunctions
          /\ Expects(pfun, pin.payload)
       \/ /\ pin \in NoSpanInputs
          /\ pfun \in JsonFunctions
    /\ ptext = TextOf(pin)

\* evaluateTranslation: callAI returned the text, parseTranslationResponse
\* interprets it.
EvaluateTranslationReturns ==
    /\ ppc = "input" /\ pfun = "evaluateTranslation"
    /\ pres' = parseTranslationResponse(ptext)
    /\ ppc' = "done"
    /\ UNCHANGED <<pfun, pin, ptext>>
    /\ UNCHANGED notParse

ExtractVocabularyReturns ==
    /\ ppc = "input" /\ pfun = "extractVocabulary"
    /\ pres' = extractVocabulary(ptext)
    /\ ppc' = "done"
    /\ UNCHANGED <<pfun, pin, ptext>>
    /\ UNCHANGED notParse

EvaluateAnswerReturns ==
    /\ ppc = "input" /\ pfun = "evaluateAnswer"
    /\ pres' = evaluateAnswer(ptext)
    /\ ppc' = "done"
    /\ UNCHANGED <<pfun, pin, ptext>>
    /\ UNCHANGED notParse

GeneratePracticeSentenceReturns ==
    /\ ppc = "input" /\ pfun = "generatePracticeSentence"
    /\ pres' = generatePracticeSentence(ptext)
    /\ ppc' = "done"
    /\ UNCHANGED <<pfun, pin, ptext>>
    /\ UNCHANGED notParse

GenerateTranslateQuestionReturns ==
    /\ ppc = "input" /\ pfun = "generateTranslateQuestion"
    /\ pres' = generateTranslateQuestion(ptext)
    /\ ppc' = "done"
    /\ UNCHANGED <<pfun, pin, ptext>>
    /\ UNCHANGED notParse

ParseNext ==
    \/ EvaluateTranslationReturns
    \/ ExtractVocabularyReturns
    \/ EvaluateAnswerReturns
    \/ GeneratePracticeSentenceReturns
    \/ GenerateTranslateQuestionReturns

ParseSpecInit == ParseInit /\ AIInit /\ StoreIdle /\ QuizInit /\ PersistIdle

SpecParse == ParseSpecInit /\ [][ParseNext]_vars

--------------------------------------------------------------------------
MaxScore == 100     \* Score: [0-100]/100

\* C30: the score parseTranslationResponse returns is an integer between 0
\* and 100, whatever the text.
C30_ScoreInRange ==
    (ppc = "done" /\ pfun = "evaluateTranslation") => pres.score \in 0..MaxScore

\* C7: parseTranslationResponse applied to the three lines 'Score: N/100',
\* 'Correct: "C"', 'Reason: R' returns score N, correctAnswer C, feedback R
\* and isCorrect = (N >= 70).
C7_TemplateParsed ==
    (ppc = "done" /\ pin.kind = "template")
        => /\ pres.outcome = "returned"
           /\ pres.score = pin.n.val
           /\ pres.correctAnswer = pin.c
           /\ pres.feedback = pin.r
           /\ pres.isCorrect = (pin.n.val >= 70)

\* The fields of a text read line by line: the first line that starts with
\* the keyword and has the field's form gives the value.
LinesWith(ls, At(_, _)) == {i \in 1..Len(ls) : ls[i] /= <<>> /\ At(ls[i], 1).found}

LineScore(ls) ==
    IF LinesWith(ls, ScoreAt) = {} THEN 0
    ELSE ParseInt(ScoreAt(ls[Min(LinesWith(ls, ScoreAt))], 1).group)

LineCorrect(ls) ==
    IF LinesWith(ls, CorrectAt) = {} THEN <<>>
    ELSE CorrectAt(ls[Min(LinesWith(ls, CorrectAt))], 1).group

LineFeedback(ls) ==
    IF LinesWith(ls, ReasonAt) = {} THEN GenericFeedback
    ELSE Trim(ReasonAt(ls[Min(LinesWith(ls, ReasonAt))], 1).group)

\* C8: the three fields are interpreted independently: a missing Score line
\* gives score 0, a missing Correct line an empty correctAnswer, a missing
\* Reason line the generic feedback, a field whose line is present is
\* extracted, the parse never throws, and isCorrect iff score >= 70.
C8_FieldsIndependent ==
    (ppc = "done" /\ pin.kind = "lines")
        => /\ pres.outcome = "returned"
           /\ pres.score = LineScore(pin.lines)
           /\ pres.correctAnswer = LineCorrect(pin.lines)
           /\ pres.feedback = LineFeedback(pin.lines)
           /\ pres.isCorrect = (pres.score >= 70)

\* C9: for a text made of arbitrary prose, one well-formed JSON array or
\* object and arbitrary prose, the interpreter extracts and parses exactly
\* that payload and returns its content.
C9_PayloadExtracted ==
    (ppc = "done" /\ pin.kind = "json")
        => /\ pres.outcome = "parsed"
           /\ pres.value = Content(pin.payload)

\* C10: for a non-empty text without a bracketed span each function returns
\* its documented fallback, without throwing (no catch block is entered).
C10_NoSpanFallback ==
    (ppc = "done" /\ pin.kind = "nospan")
        => /\ pres.outcome = "noSpan"
           /\ ~pres.error
           /\ pfun = "extractVocabulary" => pres.value = EmptyWordList
           /\ pfun = "evaluateAnswer" => pres.value = FallbackEvaluation
           /\ pfun = "generatePracticeSentence" => pres.value = PlaceholderSentence
           /\ pfun = "generateTranslateQuestion" => pres.value = PlaceholderQuestion

C10_Witness ==
    /\ ppc = "done"
    /\ pin.kind = "nospan"
    /\ pfun = "evaluateAnswer"
    /\ ptext = <<"{", "w">>
    /\ pres.value = FallbackEvaluation

\* The span the function's regular expression finds is not valid JSON
MalformedSpan ==
    LET jsonMatch == IF pfun = "extractVocabulary"
                     THEN BracketSpan(ptext, "[", "]")
                     ELSE BracketSpan(ptext, "{", "}")
    IN  /\ pfun \in JsonFunctions
        /\ jsonMatch.found
        /\ ~JSONParse(jsonMatch.group).ok

\* C11: when a bracketed span is found but is not valid JSON, the function
\* returns (its promise does not reject) the fallback of its catch block:
\* an empty word list, isCorrect false with score 0 and a feedback, or the
\* placeholder sentence / question, with `error` set.
C11_MalformedCaught ==
    (ppc = "done" /\ MalformedSpan)
        => /\ pres.outcome = "caught"
           /\ pres.error
           /\ pfun = "extractVocabulary" => pres.value = EmptyWordList
           /\ pfun = "evaluateAnswer" => pres.value = CaughtEvaluation
           /\ pfun = "generatePracticeSentence" => pres.value = CaughtSentence
           /\ pfun = "generateTranslateQuestion" => pres.value = PlaceholderQuestion

C11_Witness ==
    /\ ppc = "done"
    /\ pfun = "extractVocabulary"
    /\ ptext = <<"[", "[", "v", "]">>
    /\ MalformedSpan
    /\ pres.outcome = "caught"
    /\ pres.value = EmptyWordList


--------------------------------------------------------------------------
(***************************************************************************)
(* Word bank: the store's words, sources and songs, their persisted lists, *)
(* the extraction run of FactoryScreen (handleProcess, split at its        *)
(* awaits) and the deletions of HistoryScreen and TreasuryScreen, each a   *)
(* confirmation dialog whose Delete button runs over the lists its handler *)
(* closed over when the dialog was opened.  The screens are tabs and stay  *)
(* mounted, so a run that is awaiting continues while another tab is used. *)
(*                                                                         *)
(* A list is written as the set of its items.  Ids are unique strings in   *)
(* the code (time and a random number); here the id of a word or a source  *)
(* is the pair <<run, surface form>> of the run that created it and a      *)
(* song's id is the number of its run.                                     *)
(***************************************************************************)

MaxRuns == 1       \* extraction runs after the app was loaded
MaxSelected == 2   \* most words ticked for a batch deletion

\* songTitle as typed in FactoryScreen
Titles == {"A", "B"}

\* surface forms an extraction returns
Forms == {"cat", "Cat", "dog"}

\* String.prototype.toLowerCase
Lower(f) == IF f = "Cat" THEN "cat" ELSE f

\* allWords after the extraction loop: no two entries equal ignoring case;
\* empty when the first call returned no words or an error.
ExtractedSets ==
    {S \in SUBSET Forms : \A f, g \in S : Lower(f) = Lower(g) => f = g}

\* What the storage holds when the app is opened: nothing, or the song,
\* words and sources that an earlier run (run 0) for the title "A" with the
\* words cat and dog left there.
EmptyLibrary == [songs |-> {}, words |-> {}, sources |-> {}]

EarlierLibrary ==
    [songs |-> {[id |-> 0, title |-> "A"]},
     words |-> {[id |-> <<0, f>>, word |-> f] : f \in {"cat", "dog"}},
     sources |-> {[id |-> <<0, f>>, wordId |-> <<0, f>>, songTitle |-> "A"] :
                    f \in {"cat", "dog"}}]

\* The app has loaded: the store holds what the storage holds
\* (initializeApp: getWords, getSources, getSongs, then addWord, addSource,
\* addSong for each item).
StoreInit ==
    /\ \E lib \in {EmptyLibrary, EarlierLibrary} :
          /\ stWords = lib.words /\ stSources = lib.sources /\ stSongs = lib.songs
          /\ words = lib.words /\ sources = lib.sources /\ songs = lib.songs
    /\ factory = FactoryIdle
    /\ alert = NoAlert
    /\ runs = 0
    /\ sop = "none"

\* ---- FactoryScreen.handleProcess ----

\* Up to the first await: the title is checked, the closure holds the songs
\* of the render in which the button was pressed.
HandleProcess(title) ==
    /\ factory.pc = "idle"
    /\ alert = NoAlert
    /\ runs < MaxRuns
    /\ runs' = runs + 1
    /\ factory' = [FactoryIdle EXCEPT !.pc = "extracting", !.title = title,
                                      !.songs = songs, !.run = runs + 1]
    /\ sop' = "handleProcess"
    /\ UNCHANGED <<words, sources, songs, stWords, stSources, stSongs, alert>>
    /\ UNCHANGED notStore

NewSong(f) == [id |-> f.run, title |-> f.title]

\* The last extractVocabulary call of the loop returns and the loop ends
\* with allWords = ws; addSong(newSong); getWords is awaited.  The call
\* returned { words: [], error } when `error`: the loop ends on
\* result.words.length === 0 and nothing looks at result.error.
ExtractionEnds(ws, error) ==
    /\ factory.pc = "extracting"
    /\ songs' = songs \cup {NewSong(factory)}
    /\ factory' = [factory EXCEPT !.pc = "getWords", !.allWords = ws,
                                  !.error = error]
    /\ sop' = "handleProcess"
    /\ UNCHANGED <<words, sources, stWords, stSources, stSongs, alert, runs>>
    /\ UNCHANGED notStore

\* The merge throws on an item without a word (w.word.toLowerCase()): the
\* catch block reports 'Failed to process lyrics' in an Alert with OK
\* only, finally { setIsProcessing(false) }
ExtractionThrows ==
    /\ factory.pc = "extracting"
    /\ factory' = FactoryIdle
    /\ sop' = "handleProcessError"
    /\ UNCHANGED <<words, sources, songs, stWords, stSources, stSongs, alert, runs>>
    /\ UNCHANGED notStore

\* existingWords = await StorageService.getWords()
GetWordsReturns ==
    /\ factory.pc = "getWords"
    /\ factory' = [factory EXCEPT !.pc = "getSources", !.existingWords = stWords]
    /\ sop' = "handleProcess"
    /\ UNCHANGED <<words, sources, songs, stWords, stSources, stSongs, alert, runs>>
    /\ UNCHANGED notStore

\* existingWords.find(w => w.word.toLowerCase() === vocabWord.word.toLowerCase()):
\* the matches, and the first of them in list order (the oldest).
Matches(ws, f) == {w \in ws : Lower(w.word) = Lower(f)}

Find(ws, f) ==
    CHOOSE w \in Matches(ws, f) : \A v \in Matches(ws, f) : w.id[1] <= v.id[1]

\* The words the loop creates: one per extracted form without a match.
NewWords(f) ==
    {[id |-> <<f.run, v>>, word |-> v] :
        v \in {u \in f.allWords : Matches(f.existingWords, u) = {}}}

NewSources_ownWord(f) ==
    {[id |-> <<f.run, v>>, wordId |-> <<f.run, v>>, songTitle |-> f.title] :
        v \in f.allWords}

\* The sources the loop creates: one per extracted form, on the existing
\* word when there is a match, else on the new word.
NewSources(f) ==
    {[id |-> <<f.run, v>>,
      wordId |-> IF Matches(f.existingWords, v) /= {}
                 THEN Find(f.existingWords, v).id ELSE <<f.run, v>>,
      songTitle |-> f.title] : v \in f.allWords}

\* existingSources = await StorageService.getSources(); the loop over
\* allWords (addWord, addSource, push); saveWords(existingWords) is issued.
GetSourcesReturns ==
    /\ factory.pc = "getSources"
    /\ LET f == [factory EXCEPT !.existingSources = stSources]
       IN  /\ words' = words \cup NewWords(f)
           /\ sources' = sources \cup NewSources(f)
           /\ stWords' = f.existingWords \cup NewWords(f)
           /\ factory' = [f EXCEPT !.pc = "saveSources",
                                   !.existingWords = f.existingWords \cup NewWords(f),
                                   !.existingSources = stSources \cup NewSources(f)]
    /\ sop' = "handleProcess"
    /\ UNCHANGED <<songs, stSources, stSongs, alert, runs>>
    /\ UNCHANGED notStore

\* saveWords has returned; saveSources(existingSources) is issued.
SaveWordsReturns ==
    /\ factory.pc = "saveSources"
    /\ stSources' = factory.existingSources
    /\ factory' = [factory EXCEPT !.pc = "saveSongs"]
    /\ sop' = "handleProcess"
    /\ UNCHANGED <<words, sources, songs, stWords, stSongs, alert, runs>>
    /\ UNCHANGED notStore

\* saveSources has returned; saveSongs([...songs, newSong]) is issued with
\* the songs of the closure.
SaveSourcesReturns ==
    /\ factory.pc = "saveSongs"
    /\ stSongs' = factory.songs \cup {NewSong(factory)}
    /\ factory' = [factory EXCEPT !.pc = "finally"]
    /\ sop' = "handleProcess"
    /\ UNCHANGED <<words, sources, songs, stWords, stSources, alert, runs>>
    /\ UNCHANGED notStore

\* saveSongs has returned; finally { setIsProcessing(false) }
SaveSongsReturns ==
    /\ factory.pc = "finally"
    /\ factory' = FactoryIdle
    /\ sop' = "handleProcess"
    /\ UNCHANGED <<words, sources, songs, stWords, stSources, stSongs, alert, runs>>
    /\ UNCHANGED notStore

\* ---- confirmation dialogs ----

\* HistoryScreen.handleDeleteSong(song): the dialog opens; its Delete button
\* closes over the songs, words and sources of this render.
HandleDeleteSong(song) ==
    /\ alert = NoAlert
    /\ song \in songs
    /\ alert' = [NoAlert EXCEPT !.kind = "song", !.song = song, !.songs = songs,
                                !.words = words, !.sources = sources]
    /\ sop' = "handleDeleteSong"
    /\ UNCHANGED <<words, sources, songs, stWords, stSources, stSongs, factory, runs>>
    /\ UNCHANGED notStore

\* TreasuryScreen.handleDeleteWord with selectedWord = w
HandleDeleteWord(w) ==
    /\ alert = NoAlert
    /\ w \in words
    /\ alert' = [NoAlert EXCEPT !.kind = "word", !.ids = {w.id},
                                !.words = words, !.sources = sources]
    /\ sop' = "handleDeleteWord"
    /\ UNCHANGED <<words, sources, songs, stWords, stSources, stSongs, factory, runs>>
    /\ UNCHANGED notStore

\* TreasuryScreen.handleBatchDelete with selectedWords = ids
HandleBatchDelete(ids) ==
    /\ alert = NoAlert
    /\ ids /= {}
    /\ ids \subseteq {w.id : w \in words}
    /\ alert' = [NoAlert EXCEPT !.kind = "batch", !.ids = ids,
                                !.words = words, !.sources = sources]
    /\ sop' = "handleBatchDelete"
    /\ UNCHANGED <<words, sources, songs, stWords, stSources, stSongs, factory, runs>>
    /\ UNCHANGED notStore

\* { text: 'Cancel', style: 'cancel' }
CancelAlert ==
    /\ alert /= NoAlert
    /\ alert' = NoAlert
    /\ sop' = "cancel"
    /\ UNCHANGED <<words, sources, songs, stWords, stSources, stSongs, factory, runs>>
    /\ UNCHANGED notStore

\* handleDeleteSong's wordsToDelete = [...songWordIds].filter(id => !otherWordIds.has(id))
WordsToDelete_all(a) ==
    {s.wordId : s \in {t \in a.sources : t.songTitle = a.song.title}}

WordsToDelete(a) ==
    LET songWordIds == {s.wordId : s \in {t \in a.sources : t.songTitle = a.song.title}}
        otherWordIds == {s.wordId : s \in {t \in a.sources : t.songTitle /= a.song.title}}
    IN  songWordIds \ otherWordIds

\* The Delete button of handleDeleteSong: the three lists are computed from
\* the closure, saved, and put into the store.
ConfirmDeleteSong ==
    /\ alert.kind = "song"
    /\ LET updatedSongs == {s \in alert.songs : s.id /= alert.song.id}
           updatedSources == {s \in alert.sources : s.songTitle /= alert.song.title}
           updatedWords == {w \in alert.words : w.id \notin WordsToDelete(alert)}
       IN  /\ stSongs' = updatedSongs
           /\ stSources' = updatedSources
           /\ stWords' = updatedWords
           /\ songs' = updatedSongs
           /\ sources' = updatedSources
           /\ words' = updatedWords
    /\ alert' = NoAlert
    /\ sop' = "deleteSong"
    /\ UNCHANGED <<factory, runs>>
    /\ UNCHANGED notStore

\* The Delete button of handleDeleteWord and of handleBatchDelete
ConfirmDeleteWords ==
    /\ alert.kind \in {"word", "batch"}
    /\ LET updatedWords == {w \in alert.words : w.id \notin alert.ids}
           updatedSources == {s \in alert.sources : s.wordId \notin alert.ids}
       IN  /\ stWords' = updatedWords
           /\ stSources' = updatedSources
           /\ words' = updatedWords
           /\ sources' = updatedSources
    /\ alert' = NoAlert
    /\ sop' = "deleteWords"
    /\ UNCHANGED <<songs, stSongs, factory, runs>>
    /\ UNCHANGED notStore

Selections ==
    {ids \in SUBSET {w.id : w \in words} :
        Cardinality(ids) >= 2 /\ Cardinality(ids) <= MaxSelected}

Next ==
    \/ \E title \in Titles : HandleProcess(title)
    \/ \E ws \in ExtractedSets, error \in BOOLEAN : ExtractionEnds(ws, error)
    \/ ExtractionThrows
    \/ GetWordsReturns
    \/ GetSourcesReturns
    \/ SaveWordsReturns
    \/ SaveSourcesReturns
    \/ SaveSongsReturns
    \/ \E song \in songs : HandleDeleteSong(song)
    \/ \E w \in words : HandleDeleteWord(w)
    \/ \E ids \in Selections : HandleBatchDelete(ids)
    \/ CancelAlert
    \/ ConfirmDeleteSong
    \/ ConfirmDeleteWords

Init == StoreInit /\ AIInit /\ ParseIdle /\ QuizInit /\ PersistIdle

Spec == Init /\ [][Next]_vars

--------------------------------------------------------------------------
\* C1: confirming the deletion of a song removes every source whose
\* songTitle is the song's title and removes exactly the words that are
\* left without a source by that removal: a word that a source of another
\* title still refers to survives, a word without such a source is removed,
\* and no other word is removed.
C1_DeleteSongCascade ==
    [][(alert.kind = "song" /\ sop' = "deleteSong")
        => LET remaining == {s \in sources : s.songTitle /= alert.song.title}
           IN  /\ \A s \in sources' : s.songTitle /= alert.song.title
               /\ words' = {w \in words : \E s \in remaining : s.wordId = w.id}]_vars

\* No two words of a list have the same surface form ignoring case
NoDuplicateForms(ws) ==
    \A v, w \in ws : Lower(v.word) = Lower(w.word) => v = w

\* The words, in the store or persisted, that equal the form ignoring case
ExistingWords(form) ==
    {w \in words \cup stWords : Lower(w.word) = Lower(form)}

C20_SongOnlyOnSuccess ==
    [][/\ (factory.pc = "extracting" /\ factory'.pc = "getWords")
            => IF factory'.error THEN songs' = songs
               ELSE /\ NewSong(factory) \notin songs
                    /\ songs' = songs \cup {NewSong(factory)}
       /\ (factory.pc = "saveSongs" /\ factory'.pc = "finally")
            => IF factory.error THEN stSongs' = stSongs
               ELSE NewSong(factory) \in stSongs'
       /\ sop' = "handleProcessError"
            => songs' = songs /\ stSongs' = stSongs]_vars

\* C25: when an extraction run completes, the persisted songs, words and
\* sources equal the lists of the store, also when songs or words were
\* deleted on another screen while the run was awaiting.
C25_RunLeavesStorageEqual ==
    [][(factory.pc = "finally" /\ factory'.pc = "idle")
            => (stSongs' = songs' /\ stWords' = words' /\ stSources' = sources')]_vars

\* Every source of the list refers to a word of the list
Referenced(ss, ws) == \A s \in ss : \E w \in ws : w.id = s.wordId

\* C26: after any interleaving of extraction runs and deletions of songs
\* and words, every Source of the store has the wordId of a Word of the
\* store, and so have the persisted sources among the persisted words once
\* no run is writing.
C26_SourcesHaveWords ==
    /\ Referenced(sources, words)
    /\ factory.pc = "idle" => Referenced(stSources, stWords)

\* The sources of the list that were created for another song than `song`
\* (a source carries the run that created it, and the run is the song's id)
SourcesOfOthers(ss, song) == {s \in ss : s.id[1] /= song.id}

\* C27: deleting a song removes only that song from the song history and
\* leaves every source created for another song, and every word that has
\* such a source, in the store, also when another song has the same title.
C27_DeleteSongFrame ==
    [][(alert.kind = "song" /\ sop' = "deleteSong" /\ alert' = NoAlert)
            => /\ songs' = songs \ {alert.song}
               /\ SourcesOfOthers(sources, alert.song) \subseteq sources'
               /\ \A w \in words :
                    (\E s \in SourcesOfOthers(sources, alert.song) : s.wordId = w.id)
                        => w \in words']_vars

--------------------------------------------------------------------------
(***************************************************************************)
(* The extraction loop of handleProcess (FactoryScreen.tsx 44-73) with the *)
(* thresholds of the code.  Here factory holds the loop's variables:       *)
(* requestCount, allWords as the list it is, and for every call that has   *)
(* resolved the length of result.words, the number of items the merge      *)
(* pushed and the length of allWords after it.  An item of result.words is *)
(* <<n, cap>>: the n-th word of the lyrics, capitalised or not; every item *)
(* has a word.                                                             *)
(***************************************************************************)

MaxBatch == 13     \* most different words in one result
MaxDup == 1        \* most words one result repeats in another case

maxRequests == 3   \* const maxRequests = 3
FullBatch == 10    \* result.words.length < 10
EnoughWords == 25  \* allWords.length >= 25

\* w.word.toLowerCase() of an item
LowerOf(w) == w[1]

\* result.words: n words of the lyrics from the from-th on, then the first d
\* of them once more, capitalised
Batch(from, n, d) ==
    [i \in 1..(n + d) |-> IF i <= n THEN <<from + i - 1, FALSE>>
                          ELSE <<from + i - n - 1, TRUE>>]

Batches ==
    {Batch(from, n, d) : from \in {1, MaxBatch + 1},
                         n \in 0..MaxBatch, d \in 0..MaxDup}

RECURSIVE Merged(_, _)
\* for (const w of result.words) if (!allWords.some(...)) allWords.push(w)
Merged(all, ws) ==
    IF ws = <<>> THEN all
    ELSE Merged(IF \E i \in 1..Len(all) : LowerOf(all[i]) = LowerOf(Head(ws))
                THEN all ELSE Append(all, Head(ws)),
                Tail(ws))

LoopIdle == [pc |-> "idle", requestCount |-> 0, allWords |-> <<>>, returned |-> <<>>]

\* handleProcess up to the first await: requestCount++ and the first
\* extractVocabulary call
LoopFirstCall ==
    /\ factory.pc = "idle"
    /\ factory' = [factory EXCEPT !.pc = "awaiting", !.requestCount = 1]
    /\ sop' = "handleProcess"
    /\ UNCHANGED <<words, sources, songs, stWords, stSources, stSongs, alert, runs>>
    /\ UNCHANGED notStore

\* extractVocabulary resolves with result.words = ws: the breaks, the
\* merge, and either the end of the loop or requestCount++ and the next call
ExtractVocabularyResolves(ws) ==
    /\ factory.pc = "awaiting"
    /\ LET all == Merged(factory.allWords, ws)
           ends == \/ Len(ws) = 0
                   \/ Len(ws) < FullBatch
                   \/ Len(all) >= EnoughWords
                   \/ ~(factory.requestCount < maxRequests)
       IN  factory' =
             [factory EXCEPT
                !.allWords = all,
                !.returned = Append(@, [len |-> Len(ws),
                                        new |-> Len(all) - Len(factory.allWords),
                                        total |-> Len(all)]),
                !.pc = IF ends THEN "ended" ELSE "awaiting",
                !.requestCount = IF ends THEN @ ELSE @ + 1]
    /\ sop' = "handleProcess"
    /\ UNCHANGED <<words, sources, songs, stWords, stSources, stSongs, alert, runs>>
    /\ UNCHANGED notStore

LoopNext ==
    \/ LoopFirstCall
    \/ \E ws \in Batches : ExtractVocabularyResolves(ws)

LoopInit ==
    /\ words = {} /\ sources = {} /\ songs = {}
    /\ stWords = {} /\ stSources = {} /\ stSongs = {}
    /\ factory = LoopIdle
    /\ alert = NoAlert
    /\ runs = 0
    /\ sop = "none"
    /\ AIInit /\ ParseIdle /\ QuizInit /\ PersistIdle

SpecLoop == LoopInit /\ [][LoopNext]_vars

\* C12: when the first extractVocabulary call yields fewer than 10 new
\* words (items the merge pushed onto the deduplicated list), the loop ends
\* after that call: no second call is issued.
C12_FirstCallShort ==
    (Len(factory.returned) >= 1 /\ factory.returned[1].new < FullBatch)
        => factory.requestCount = 1

\* C13: a run issues at most 3 calls, one at a time; no call is issued
\* after a call that left 25 or more items accumulated or that yielded
\* fewer than 10 new items; allWords never holds two items equal ignoring
\* case.
C13_LoopBounded ==
    /\ factory.requestCount <= maxRequests
    /\ factory.pc = "awaiting" => Len(factory.returned) = factory.requestCount - 1
    /\ factory.pc = "ended" => Len(factory.returned) = factory.requestCount
    /\ \A i \in 1..Len(factory.returned) :
          (factory.returned[i].total >= EnoughWords
              \/ factory.returned[i].new < FullBatch)
          => factory.requestCount = i
    /\ \A i, j \in 1..Len(factory.allWords) :
          LowerOf(factory.allWords[i]) = LowerOf(factory.allWords[j]) => i = j

--------------------------------------------------------------------------
(***************************************************************************)
(* Quiz screens: Arena (ArenaScreen), Practice (PracticeScreen), Treasury  *)
(* practice (TreasuryScreen) and Review (ReviewScreen), with the           *)
(* wrong-answer log of the store.                                          *)
(*                                                                         *)
(* q is the local state of the screen in use.  A screen at its setup step  *)
(* with no AI call in flight is left by Navigate; the next start           *)
(* overwrites what it kept.  The wrong-answer log is the only state the    *)
(* screens share.  A handler that awaits an evaluation is split there: the *)
(* request carries what the handler closed over (question, typed answer,   *)
(* the score of that render), and the response step runs the rest of the   *)
(* handler with those values.  The submit buttons are disabled while       *)
(* isEvaluating is rendered, so one evaluation is in flight at a time.     *)
(* AsyncStorage applies setItem calls in call order; a write is made when  *)
(* it is called.  The catch blocks of the submit handlers are not          *)
(* modelled: evaluateAnswer and evaluateTranslation catch everything.      *)
(***************************************************************************)

MaxSessions == 2    \* sessions started (challenges, practices, reviews)
MaxWrong == 2       \* wrong answers recorded
MaxQuestions == 2   \* largest questionCount typed in PracticeScreen
MaxPending == 1     \* generation calls in flight

MinWords == 4       \* availableWords.length < 4: 'Not enough words'
WordCount == 5      \* ArenaScreen: useState(5)

Screens == {"Arena", "Practice", "Treasury", "Review"}

\* challengeMode of Arena, practiceMode of Practice and Treasury
ModesOf(s) ==
    IF s = "Arena" THEN {"4choice", "fill"} ELSE {"4choice", "fill", "translate"}

\* userInput / userAnswer after trim(): the submit buttons need it non-empty
Answers == {"x"}

\* An option of a 4-choice question: the word itself or another word
Options == {"right", "other"}

Scores == {0, 40, 69, 70, 85}

\* if (error) return { isCorrect: false, score: 0, feedback: error }: what
\* both evaluators return when callAI returns an error. The result has no
\* `error` property; the message is in `feedback`.
CallFailed ==
    [isCorrect |-> FALSE, score |-> 0, correctAnswer |-> "", error |-> FALSE,
     feedback |-> "error"]

\* The result of the evaluators' catch block: as CallFailed, with `error` set
CallThrew ==
    [isCorrect |-> FALSE, score |-> 0, correctAnswer |-> "", error |-> TRUE,
     feedback |-> "error"]

\* What evaluateAnswer returns: the parsed payload as the model wrote it
\* (isCorrect and score need not agree), { isCorrect: false, score: 0 } for
\* a missing match, and the two results of a failed call.
AnswerResults ==
    {[isCorrect |-> b, score |-> s, correctAnswer |-> "", error |-> FALSE,
      feedback |-> ""] : b \in BOOLEAN, s \in Scores}
    \cup {CallFailed, CallThrew}

\* What evaluateTranslation returns: parseTranslationResponse's result
\* (isCorrect = score >= 70, correctAnswer '' without a Correct line), or
\* the error results.
TranslationResults ==
    {[isCorrect |-> s >= PassScore, score |-> s, correctAnswer |-> c, error |-> FALSE,
      feedback |-> ""] : s \in Scores, c \in {"", "t"}}
    \cup {CallFailed, CallThrew}

\* result.isCorrect || result.score >= 70
Passes(r) == r.isCorrect \/ r.score >= PassScore

\* The result a 4-choice screen builds itself: score 100 or 0
LocalResult(isCorrect) ==
    [isCorrect |-> isCorrect, score |-> IF isCorrect THEN 100 ELSE 0,
     correctAnswer |-> "", error |-> FALSE, feedback |-> ""]

Event(op, res, answer, req) ==
    [op |-> op, scr |-> q.scr, res |-> res, answer |-> answer, req |-> req]

\* A bank of four words from one song, loaded into the store
QuizBank ==
    [songs |-> {[id |-> 0, title |-> "A"]},
     words |-> {[id |-> <<0, f>>, word |-> f] : f \in {"w1", "w2", "w3", "w4"}},
     sources |-> {[id |-> <<0, f>>, wordId |-> <<0, f>>, songTitle |-> "A"] :
                    f \in {"w1", "w2", "w3", "w4"}}]

BankLoaded ==
    /\ stWords = QuizBank.words /\ stSources = QuizBank.sources
    /\ stSongs = QuizBank.songs
    /\ words = QuizBank.words /\ sources = QuizBank.sources
    /\ songs = QuizBank.songs
    /\ factory = FactoryIdle
    /\ alert = NoAlert
    /\ runs = 0
    /\ sop = "none"

\* ---- the wrong-answer log (store/index.ts) ----

\* The WrongAnswer a handler builds; its id is unique
WrongAnswer(word, userAnswer, correctAnswer, score, errorType) ==
    [id |-> waNext, word |-> word, userAnswer |-> userAnswer,
     correctAnswer |-> correctAnswer, score |-> score, errorType |-> errorType]

\* addWrongAnswer: [...get().wrongAnswers, wrongAnswer], set, setItem
AddWrongAnswer(wa) ==
    /\ wrongAnswers' = wrongAnswers \cup {wa}
    /\ stWrongAnswers' = wrongAnswers \cup {wa}
    /\ waNext' = waNext + 1

Filtered_clear(log, id) == {}

\* get().wrongAnswers.filter(item => item.id !== id)
Filtered(log, id) == {w \in log : w.id /= id}

\* removeWrongAnswer: filter, set, setItem
RemoveWrongAnswer(id) ==
    /\ wrongAnswers' = Filtered(wrongAnswers, id)
    /\ stWrongAnswers' = Filtered(wrongAnswers, id)
    /\ UNCHANGED waNext

LogUnchanged == UNCHANGED <<wrongAnswers, stWrongAnswers, waNext>>

\* Alert.alert('Challenge Complete!' / 'Practice Complete!',
\* `You got ${n}/${length} correct!`), closed with OK
Summary(n) == [shown |-> TRUE, score |-> n]

\* The bottom tabs and the Others stack: another screen is opened
Navigate(s) ==
    /\ s /= q.scr
    /\ q.step = "setup" /\ evalReq = NoReq /\ genReqs = {}
    /\ q' = QuizRest(s, q.sess)
    /\ qev' = Event("navigate", NoEvaluation, "", NoReq)
    /\ UNCHANGED <<evalReq, genReqs>>
    /\ LogUnchanged
    /\ UNCHANGED notQuiz

\* ---- ArenaScreen ----

\* [...availableWords].sort(() => Math.random() - 0.5).slice(0, n): the
\* lists of n different words
Shuffles(ws, n) ==
    {list \in [1..n -> ws] : \A i, j \in 1..n : list[i] = list[j] => i = j}

\* One of them
Shuffled(ws, n) == CHOOSE list \in Shuffles(ws, n) : TRUE

\* startChallenge with challengeMode = m and selectedWords = list
ArenaStartChallenge(m, list) ==
    /\ q.scr = "Arena" /\ q.step = "setup"
    /\ q.sess < MaxSessions
    /\ Cardinality(words) >= MinWords
    /\ list \in Shuffles(words, Min({WordCount, Cardinality(words)}))
    /\ q' = [q EXCEPT !.step = "quiz", !.mode = m, !.sess = q.sess + 1,
                      !.len = Len(list), !.items = list,
                      !.idx = 1, !.score = 0, !.summary = NoSummary, !.result = "none"]
    /\ qev' = Event("start", NoEvaluation, "", NoReq)
    /\ UNCHANGED <<evalReq, genReqs>>
    /\ LogUnchanged
    /\ UNCHANGED notQuiz

\* handleSubmit up to `await evaluateAnswer(...)`, with userInput = a
ArenaHandleSubmit(a) ==
    /\ q.scr = "Arena" /\ q.step = "quiz" /\ q.mode = "fill"
    /\ q.result = "none" /\ ~q.evaluating
    /\ evalReq' = [NoReq EXCEPT !.scr = "Arena", !.sess = q.sess, !.idx = q.idx,
                                !.score = q.score, !.answer = a, !.mode = "fill"]
    /\ q' = [q EXCEPT !.evaluating = TRUE]
    /\ qev' = Event("submit", NoEvaluation, a, NoReq)
    /\ UNCHANGED genReqs
    /\ LogUnchanged
    /\ UNCHANGED notQuiz

\* handleSubmit after the await: the closure's score and challenge are used
ArenaEvaluateReturns(r) ==
    /\ evalReq.scr = "Arena" /\ q.scr = "Arena"
    /\ Passes(r) \/ waNext <= MaxWrong
    /\ IF Passes(r)
       THEN /\ q' = [q EXCEPT !.result = "pass", !.score = evalReq.score + 1,
                              !.evaluating = FALSE]
            /\ LogUnchanged
       ELSE /\ q' = [q EXCEPT !.result = "fail", !.evaluating = FALSE]
            /\ AddWrongAnswer(WrongAnswer(<<evalReq.sess, evalReq.idx>>,
                                          evalReq.answer, "word", r.score, "fill"))
    /\ evalReq' = NoReq
    /\ qev' = Event("evaluated", r, evalReq.answer, evalReq)
    /\ UNCHANGED genReqs
    /\ UNCHANGED notQuiz

ArenaHandleSelectOption_again(o) ==
    /\ q.scr = "Arena" /\ q.step = "quiz" /\ q.mode = "4choice"
    /\ o = "right" \/ waNext <= MaxWrong
    /\ IF o = "right"
       THEN /\ q' = [q EXCEPT !.result = "pass", !.score = q.score + 1]
            /\ LogUnchanged
       ELSE /\ q' = [q EXCEPT !.result = "fail"]
            /\ AddWrongAnswer(WrongAnswer(<<q.sess, q.idx>>, o, "word", 0, "4choice"))
    /\ qev' = Event("selected", LocalResult(o = "right"), o, NoReq)
    /\ UNCHANGED <<evalReq, genReqs>>
    /\ UNCHANGED notQuiz

\* handleSelectOption(answer)
ArenaHandleSelectOption(o) ==
    /\ q.scr = "Arena" /\ q.step = "quiz" /\ q.mode = "4choice"
    /\ q.result = "none"
    /\ o = "right" \/ waNext <= MaxWrong
    /\ IF o = "right"
       THEN /\ q' = [q EXCEPT !.result = "pass", !.score = q.score + 1]
            /\ LogUnchanged
       ELSE /\ q' = [q EXCEPT !.result = "fail"]
            /\ AddWrongAnswer(WrongAnswer(<<q.sess, q.idx>>, o, "word", 0, "4choice"))
    /\ qev' = Event("selected", LocalResult(o = "right"), o, NoReq)
    /\ UNCHANGED <<evalReq, genReqs>>
    /\ UNCHANGED notQuiz

\* nextChallenge; after the last challenge the alert's OK leads to settings
ArenaNextChallenge ==
    /\ q.scr = "Arena" /\ q.step = "quiz"
    /\ q.result /= "none"
    /\ IF q.idx < q.len
       THEN q' = [q EXCEPT !.idx = q.idx + 1, !.result = "none"]
       ELSE q' = [q EXCEPT !.step = "setup", !.summary = Summary(q.score)]
    /\ qev' = Event("next", NoEvaluation, "", NoReq)
    /\ UNCHANGED <<evalReq, genReqs>>
    /\ LogUnchanged
    /\ UNCHANGED notQuiz

\* Exit: setArenaStep('settings')
ArenaExit ==
    /\ q.scr = "Arena" /\ q.step = "quiz"
    /\ q' = [q EXCEPT !.step = "setup"]
    /\ qev' = Event("exit", NoEvaluation, "", NoReq)
    /\ UNCHANGED <<evalReq, genReqs>>
    /\ LogUnchanged
    /\ UNCHANGED notQuiz

\* ---- PracticeScreen ----

\* The load a question starts: loadTranslateQuestion in translate mode,
\* loadPracticeSentence otherwise
GenRequest(scr, m, sess, idx) ==
    [scr |-> scr, sess |-> sess, idx |-> idx,
     kind |-> IF m = "translate" THEN "question" ELSE "sentence"]

\* loadPracticeSentence / loadTranslateQuestion up to the await: the
\* sentence (the question) shown is cleared
Cleared(s, m) ==
    IF m = "translate" THEN [s EXCEPT !.question = NoQuestion]
    ELSE [s EXCEPT !.sentence = NoQuestion]

\* startPractice with practiceMode = m and questionCount = n
PracticeStart(m, n) ==
    /\ q.scr = "Practice" /\ q.step = "setup"
    /\ q.sess < MaxSessions
    /\ Cardinality(words) >= MinWords
    /\ n <= Cardinality(words)
    /\ Cardinality(genReqs) < MaxPending
    /\ q' = Cleared([q EXCEPT !.step = "quiz", !.mode = m, !.sess = q.sess + 1,
                              !.len = n, !.idx = 1, !.score = 0, !.summary = NoSummary,
                              !.result = "none"], m)
    /\ genReqs' = genReqs \cup {GenRequest("Practice", m, q.sess + 1, 1)}
    /\ qev' = Event("start", NoEvaluation, "", NoReq)
    /\ UNCHANGED evalReq
    /\ LogUnchanged
    /\ UNCHANGED notQuiz

\* loadPracticeSentence / loadTranslateQuestion after the await: an error
\* result is reported and dropped, any other result is shown
PracticeLoadReturns(g, error) ==
    /\ g \in genReqs /\ g.scr = "Practice" /\ q.scr = "Practice"
    /\ genReqs' = genReqs \ {g}
    /\ q' = IF error THEN q
            ELSE IF g.kind = "question" THEN [q EXCEPT !.question = <<g.sess, g.idx>>]
            ELSE [q EXCEPT !.sentence = <<g.sess, g.idx>>]
    /\ qev' = Event("loaded", NoEvaluation, "", NoReq)
    /\ UNCHANGED evalReq
    /\ LogUnchanged
    /\ UNCHANGED notQuiz

\* handleSelectOption(answer)
PracticeHandleSelectOption(o) ==
    /\ q.scr = "Practice" /\ q.step = "quiz" /\ q.mode = "4choice"
    /\ q.result = "none"
    /\ o = "right" \/ waNext <= MaxWrong
    /\ IF o = "right"
       THEN /\ q' = [q EXCEPT !.result = "pass", !.score = q.score + 1]
            /\ LogUnchanged
       ELSE /\ q' = [q EXCEPT !.result = "fail"]
            /\ AddWrongAnswer(WrongAnswer(<<q.sess, q.idx>>, o, "word", 0, "4choice"))
    /\ qev' = Event("selected", LocalResult(o = "right"), o, NoReq)
    /\ UNCHANGED <<evalReq, genReqs>>
    /\ UNCHANGED notQuiz

\* submitAnswer up to the await, with userAnswer = a: it returns at once
\* without a sentence (fill) and does nothing without a question (translate)
PracticeSubmitAnswer(a) ==
    /\ q.scr = "Practice" /\ q.step = "quiz" /\ q.mode /= "4choice"
    /\ q.result = "none" /\ ~q.evaluating
    /\ \/ q.mode = "fill" /\ q.sentence /= NoQuestion
       \/ q.mode = "translate" /\ q.question /= NoQuestion
    /\ evalReq' = [NoReq EXCEPT !.scr = "Practice", !.sess = q.sess, !.idx = q.idx,
                                !.score = q.score, !.answer = a, !.mode = q.mode]
    /\ q' = [q EXCEPT !.evaluating = TRUE]
    /\ qev' = Event("submit", NoEvaluation, a, NoReq)
    /\ UNCHANGED genReqs
    /\ LogUnchanged
    /\ UNCHANGED notQuiz

\* submitAnswer after the await: an error result is reported and dropped;
\* setPracticeScore(prev => prev + 1) counts on the current score
PracticeEvaluateReturns(r) ==
    /\ evalReq.scr = "Practice" /\ q.scr = "Practice"
    /\ r \in IF evalReq.mode = "translate" THEN TranslationResults ELSE AnswerResults
    /\ r.error \/ Passes(r) \/ waNext <= MaxWrong
    /\ IF r.error
       THEN /\ q' = [q EXCEPT !.evaluating = FALSE]
            /\ LogUnchanged
       ELSE IF Passes(r)
       THEN /\ q' = [q EXCEPT !.result = "pass", !.score = q.score + 1,
                              !.evaluating = FALSE]
            /\ LogUnchanged
       ELSE /\ q' = [q EXCEPT !.result = "fail", !.evaluating = FALSE]
            /\ AddWrongAnswer(WrongAnswer(<<evalReq.sess, evalReq.idx>>, evalReq.answer,
                                IF evalReq.mode = "translate" THEN r.correctAnswer
                                ELSE "word",
                                r.score, evalReq.mode))
    /\ evalReq' = NoReq
    /\ qev' = Event("evaluated", r, evalReq.answer, evalReq)
    /\ UNCHANGED genReqs
    /\ UNCHANGED notQuiz

\* nextQuestion; after the last question the alert's OK leads to select
PracticeNextQuestion ==
    /\ q.scr = "Practice" /\ q.step = "quiz"
    /\ q.result /= "none"
    /\ q.idx < q.len => Cardinality(genReqs) < MaxPending
    /\ IF q.idx < q.len
       THEN /\ q' = Cleared([q EXCEPT !.idx = q.idx + 1, !.result = "none"], q.mode)
            /\ genReqs' = genReqs \cup {GenRequest("Practice", q.mode, q.sess, q.idx + 1)}
       ELSE /\ q' = [q EXCEPT !.step = "setup", !.summary = Summary(q.score)]
            /\ UNCHANGED genReqs
    /\ qev' = Event("next", NoEvaluation, "", NoReq)
    /\ UNCHANGED evalReq
    /\ LogUnchanged
    /\ UNCHANGED notQuiz

\* Exit: setPracticeStep('select')
PracticeExit ==
    /\ q.scr = "Practice" /\ q.step = "quiz"
    /\ q' = [q EXCEPT !.step = "setup"]
    /\ qev' = Event("exit", NoEvaluation, "", NoReq)
    /\ UNCHANGED <<evalReq, genReqs>>
    /\ LogUnchanged
    /\ UNCHANGED notQuiz

\* ---- TreasuryScreen practice ----

\* startPractice(mode): all available words are practised
TreasuryStartPractice(m) ==
    /\ q.scr = "Treasury" /\ q.step = "setup"
    /\ q.sess < MaxSessions
    /\ Cardinality(words) >= MinWords
    /\ Cardinality(genReqs) < MaxPending
    /\ q' = Cleared([q EXCEPT !.step = "quiz", !.mode = m, !.sess = q.sess + 1,
                              !.len = Cardinality(words), !.idx = 1, !.score = 0, !.summary = NoSummary,
                              !.result = "none"], m)
    /\ genReqs' = genReqs \cup {GenRequest("Treasury", m, q.sess + 1, 1)}
    /\ qev' = Event("start", NoEvaluation, "", NoReq)
    /\ UNCHANGED evalReq
    /\ LogUnchanged
    /\ UNCHANGED notQuiz

\* loadPracticeSentence / loadTranslateQuestion after the await: whatever
\* was returned is shown
TreasuryLoadReturns(g) ==
    /\ g \in genReqs /\ g.scr = "Treasury" /\ q.scr = "Treasury"
    /\ genReqs' = genReqs \ {g}
    /\ q' = IF g.kind = "question" THEN [q EXCEPT !.question = <<g.sess, g.idx>>]
            ELSE [q EXCEPT !.sentence = <<g.sess, g.idx>>]
    /\ qev' = Event("loaded", NoEvaluation, "", NoReq)
    /\ UNCHANGED evalReq
    /\ LogUnchanged
    /\ UNCHANGED notQuiz

\* onPress of a 4-choice option (rendered once practiceSentence is set):
\* the result is shown and a correct pick is counted; no WrongAnswer is
\* built for a wrong pick
TreasuryOptionPress(o) ==
    /\ q.scr = "Treasury" /\ q.step = "quiz" /\ q.mode = "4choice"
    /\ q.sentence /= NoQuestion
    /\ q.result = "none"
    /\ q' = IF o = "right"
            THEN [q EXCEPT !.result = "pass", !.score = q.score + 1]
            ELSE [q EXCEPT !.result = "fail"]
    /\ qev' = Event("selected", LocalResult(o = "right"), o, NoReq)
    /\ UNCHANGED <<evalReq, genReqs>>
    /\ LogUnchanged
    /\ UNCHANGED notQuiz

\* submitPracticeAnswer up to the await, with userAnswer = a
TreasurySubmitPracticeAnswer(a) ==
    /\ q.scr = "Treasury" /\ q.step = "quiz" /\ q.mode /= "4choice"
    /\ q.result = "none" /\ ~q.evaluating
    /\ \/ q.mode = "fill" /\ q.sentence /= NoQuestion
       \/ q.mode = "translate" /\ q.question /= NoQuestion
    /\ evalReq' = [NoReq EXCEPT !.scr = "Treasury", !.sess = q.sess, !.idx = q.idx,
                                !.score = q.score, !.answer = a, !.mode = q.mode]
    /\ q' = [q EXCEPT !.evaluating = TRUE]
    /\ qev' = Event("submit", NoEvaluation, a, NoReq)
    /\ UNCHANGED genReqs
    /\ LogUnchanged
    /\ UNCHANGED notQuiz

\* submitPracticeAnswer after the await: setPracticeScore(practiceScore + 1)
\* counts on the closure's score
TreasuryEvaluateReturns(r) ==
    /\ evalReq.scr = "Treasury" /\ q.scr = "Treasury"
    /\ r \in IF evalReq.mode = "translate" THEN TranslationResults ELSE AnswerResults
    /\ Passes(r) \/ waNext <= MaxWrong
    /\ IF Passes(r)
       THEN /\ q' = [q EXCEPT !.result = "pass", !.score = evalReq.score + 1,
                              !.evaluating = FALSE]
            /\ LogUnchanged
       ELSE /\ q' = [q EXCEPT !.result = "fail", !.evaluating = FALSE]
            /\ AddWrongAnswer(WrongAnswer(<<evalReq.sess, evalReq.idx>>, evalReq.answer,
                                          "word", r.score, evalReq.mode))
    /\ evalReq' = NoReq
    /\ qev' = Event("evaluated", r, evalReq.answer, evalReq)
    /\ UNCHANGED genReqs
    /\ UNCHANGED notQuiz

\* nextPractice; after the last word the alert's OK leads to the list
TreasuryNextPractice ==
    /\ q.scr = "Treasury" /\ q.step = "quiz"
    /\ q.result /= "none"
    /\ q.idx < q.len => Cardinality(genReqs) < MaxPending
    /\ IF q.idx < q.len
       THEN /\ q' = Cleared([q EXCEPT !.idx = q.idx + 1, !.result = "none"], q.mode)
            /\ genReqs' = genReqs \cup {GenRequest("Treasury", q.mode, q.sess, q.idx + 1)}
       ELSE /\ q' = [q EXCEPT !.step = "setup",
                              !.summary = Summary(q.score +
                                            IF q.result = "pass" THEN 1 ELSE 0)]
            /\ UNCHANGED genReqs
    /\ qev' = Event("next", NoEvaluation, "", NoReq)
    /\ UNCHANGED evalReq
    /\ LogUnchanged
    /\ UNCHANGED notQuiz

\* Exit: setTreasuryStep('list')
TreasuryExit ==
    /\ q.scr = "Treasury" /\ q.step = "quiz"
    /\ q' = [q EXCEPT !.step = "setup"]
    /\ qev' = Event("exit", NoEvaluation, "", NoReq)
    /\ UNCHANGED <<evalReq, genReqs>>
    /\ LogUnchanged
    /\ UNCHANGED notQuiz

\* ---- ReviewScreen ----

RECURSIVE InListOrder(_)
\* The entries of a log in list order: entries are appended, so by id
InListOrder(S) ==
    IF S = {} THEN <<>>
    ELSE LET first == CHOOSE w \in S : \A v \in S : w.id <= v.id
         IN  <<first>> \o InListOrder(S \ {first})

\* filteredWrongAnswers with filterType = f
FilteredWrongAnswers(f) ==
    {w \in wrongAnswers : (f = "translate") <=> (w.errorType = "translate")}

\* The two Review screens of the repository: screens/ReviewScreen.tsx
\* (Practice All, evaluateAnswer for every entry) and unnamed/part_002
\* (filtered list, evaluateTranslation for translate entries)
ReviewFiles == {"ReviewScreen.tsx", "part_002"}

ReviewBegin(list, file) ==
    /\ q.scr = "Review" /\ q.step = "setup"
    /\ q.sess < MaxSessions
    /\ q' = [q EXCEPT !.step = "quiz", !.sess = q.sess + 1, !.items = list,
                      !.mode = file,
                      !.len = Len(list), !.idx = 1, !.score = 0, !.summary = NoSummary, !.result = "none"]
    /\ qev' = Event("start", NoEvaluation, "", NoReq)
    /\ UNCHANGED <<evalReq, genReqs>>
    /\ LogUnchanged
    /\ UNCHANGED notQuiz

\* startPracticeSingle(item); the card's onPress in ReviewScreen.tsx
ReviewStartPracticeSingle(item, file) ==
    /\ item \in wrongAnswers
    /\ ReviewBegin(<<item>>, file)

\* startPractice of ReviewScreen.tsx: every entry of the log
ReviewPracticeAll ==
    /\ wrongAnswers /= {}
    /\ ReviewBegin(InListOrder(wrongAnswers), "ReviewScreen.tsx")

\* startPractice with filterType = f
ReviewStartPractice(f) ==
    /\ FilteredWrongAnswers(f) /= {}
    /\ ReviewBegin(InListOrder(FilteredWrongAnswers(f)), "part_002")

\* handleSubmitAnswer up to the await, with userAnswer = a
ReviewHandleSubmitAnswer(a) ==
    /\ q.scr = "Review" /\ q.step = "quiz"
    /\ q.result = "none" /\ ~q.evaluating
    /\ q.idx <= Len(q.items)
    /\ evalReq' = [NoReq EXCEPT !.scr = "Review", !.sess = q.sess, !.idx = q.idx,
                                !.score = q.score, !.answer = a,
                                !.mode = IF q.mode = "part_002"
                                         THEN q.items[q.idx].errorType
                                         ELSE "fill",
                                !.item = q.items[q.idx]]
    /\ q' = [q EXCEPT !.evaluating = TRUE]
    /\ qev' = Event("submit", NoEvaluation, a, NoReq)
    /\ UNCHANGED genReqs
    /\ LogUnchanged
    /\ UNCHANGED notQuiz

\* handleSubmitAnswer after the await: a pass counts and removes the
\* closure's item from the log, anything else only shows the result
ReviewEvaluateReturns(r) ==
    /\ evalReq.scr = "Review" /\ q.scr = "Review"
    /\ r \in IF evalReq.mode = "translate"
             THEN TranslationResults ELSE AnswerResults
    /\ IF Passes(r)
       THEN /\ q' = [q EXCEPT !.result = "pass", !.score = evalReq.score + 1,
                              !.evaluating = FALSE]
            /\ RemoveWrongAnswer(evalReq.item.id)
       ELSE /\ q' = [q EXCEPT !.result = "fail", !.evaluating = FALSE]
            /\ LogUnchanged
    /\ evalReq' = NoReq
    /\ qev' = Event("evaluated", r, evalReq.answer, evalReq)
    /\ UNCHANGED genReqs
    /\ UNCHANGED notQuiz

\* handleNext: the next item, or setMode('list') after the last: no Alert
ReviewHandleNext ==
    /\ q.scr = "Review" /\ q.step = "quiz"
    /\ q.result /= "none"
    /\ IF q.idx < Len(q.items)
       THEN q' = [q EXCEPT !.idx = q.idx + 1, !.result = "none"]
       ELSE q' = [q EXCEPT !.step = "setup"]
    /\ qev' = Event("next", NoEvaluation, "", NoReq)
    /\ UNCHANGED <<evalReq, genReqs>>
    /\ LogUnchanged
    /\ UNCHANGED notQuiz

\* Exit Practice: setMode('list')
ReviewExit ==
    /\ q.scr = "Review" /\ q.step = "quiz"
    /\ q' = [q EXCEPT !.step = "setup"]
    /\ qev' = Event("exit", NoEvaluation, "", NoReq)
    /\ UNCHANGED <<evalReq, genReqs>>
    /\ LogUnchanged
    /\ UNCHANGED notQuiz

\* The delete button of a list item: onDelete = removeWrongAnswer
ReviewDelete(item) ==
    /\ q.scr = "Review" /\ q.step = "setup"
    /\ item \in wrongAnswers
    /\ RemoveWrongAnswer(item.id)
    /\ qev' = Event("remove", NoEvaluation, "", NoReq)
    /\ UNCHANGED <<q, evalReq, genReqs>>
    /\ UNCHANGED notQuiz

\* handleClearAll: clearWrongAnswers sets [] and writes it
ReviewClearAll ==
    /\ q.scr = "Review" /\ q.step = "setup"
    /\ wrongAnswers /= {}
    /\ wrongAnswers' = {}
    /\ stWrongAnswers' = {}
    /\ qev' = Event("clear", NoEvaluation, "", NoReq)
    /\ UNCHANGED <<q, evalReq, genReqs, waNext>>
    /\ UNCHANGED notQuiz

QuizNext ==
    \/ \E s \in Screens : Navigate(s)
    \/ \E m \in ModesOf("Arena") :
            ArenaStartChallenge(m, Shuffled(words, Min({WordCount, Cardinality(words)})))
    \/ \E a \in Answers : ArenaHandleSubmit(a)
    \/ \E r \in AnswerResults : ArenaEvaluateReturns(r)
    \/ \E o \in Options : ArenaHandleSelectOption(o)
    \/ ArenaNextChallenge
    \/ ArenaExit
    \/ \E m \in ModesOf("Practice"), n \in 1..MaxQuestions : PracticeStart(m, n)
    \/ \E g \in genReqs, error \in BOOLEAN : PracticeLoadReturns(g, error)
    \/ \E o \in Options : PracticeHandleSelectOption(o)
    \/ \E a \in Answers : PracticeSubmitAnswer(a)
    \/ \E r \in AnswerResults \cup TranslationResults : PracticeEvaluateReturns(r)
    \/ PracticeNextQuestion
    \/ PracticeExit
    \/ \E m \in ModesOf("Treasury") : TreasuryStartPractice(m)
    \/ \E g \in genReqs : TreasuryLoadReturns(g)
    \/ \E o \in Options : TreasuryOptionPress(o)
    \/ \E a \in Answers : TreasurySubmitPracticeAnswer(a)
    \/ \E r \in AnswerResults \cup TranslationResults : TreasuryEvaluateReturns(r)
    \/ TreasuryNextPractice
    \/ TreasuryExit
    \/ \E item \in wrongAnswers, file \in ReviewFiles :
            ReviewStartPracticeSingle(item, file)
    \/ ReviewPracticeAll
    \/ \E f \in {"translate", "other"} : ReviewStartPractice(f)
    \/ \E a \in Answers : ReviewHandleSubmitAnswer(a)
    \/ \E r \in AnswerResults \cup TranslationResults : ReviewEvaluateReturns(r)
    \/ ReviewHandleNext
    \/ ReviewExit
    \/ \E item \in wrongAnswers : ReviewDelete(item)
    \/ ReviewClearAll

QuizSpecInit == QuizInit /\ BankLoaded /\ AIInit /\ ParseIdle /\ PersistIdle

SpecQuiz == QuizSpecInit /\ [][QuizNext]_vars

--------------------------------------------------------------------------
\* The step in which a fill-in-blank evaluation returned to Arena, Practice
\* or Treasury
FillEvaluated ==
    /\ qev'.op = "evaluated"
    /\ qev'.scr \in {"Arena", "Practice", "Treasury"}
    /\ qev'.req.mode = "fill"

\* C4: when the evaluation of a fill-in-blank submission in Arena, Practice
\* or Treasury returns a score of 70 or more, the wrong-answer log is left
\* unchanged and the running score increases by exactly 1.
C4_PassCountsOnce ==
    [][(FillEvaluated /\ ~qev'.res.error /\ qev'.res.score >= PassScore)
        => /\ wrongAnswers' = wrongAnswers
           /\ stWrongAnswers' = stWrongAnswers
           /\ q'.score = q.score + 1]_vars

\* The step in which a submission of Arena, Practice or Treasury was scored:
\* an option was picked (scored 100 or 0) or an evaluation returned
Scored ==
    /\ qev'.op \in {"selected", "evaluated"}
    /\ qev'.scr \in {"Arena", "Practice", "Treasury"}

\* C5: whenever a submission of any quiz type in Arena, Practice or Treasury
\* is scored below 70, exactly one WrongAnswer is appended, carrying that
\* score, the submitted answer and the correct answer, and the running score
\* does not increase.
C5_FailRecordedOnce ==
    [][(Scored /\ qev'.res.score < PassScore)
        => /\ \E w \in wrongAnswers' :
                /\ w \notin wrongAnswers
                /\ wrongAnswers' = wrongAnswers \cup {w}
                /\ w.score = qev'.res.score
                /\ w.userAnswer = qev'.answer
                /\ w.correctAnswer /= ""
           /\ q'.score <= q.score]_vars

\* The step in which the evaluation of a Review retry returned
RetryEvaluated ==
    /\ qev'.op = "evaluated"
    /\ qev'.scr = "Review"

\* C6: a Review retry that passes (isCorrect or score >= 70) removes exactly
\* the retried entry from the wrong-answer log, in the store and in the
\* persisted list; a retry that does not pass leaves both unchanged.
C6_RetryRemovesEntry ==
    [][RetryEvaluated
        => IF Passes(qev'.res)
           THEN /\ wrongAnswers' = wrongAnswers \ {qev'.req.item}
                /\ stWrongAnswers' = stWrongAnswers \ {qev'.req.item}
           ELSE /\ wrongAnswers' = wrongAnswers
                /\ stWrongAnswers' = stWrongAnswers]_vars

\* A retry has passed with 85: its entry is gone from the store and from the
\* persisted list, and the other entry of the log is still in both.
C6_Witness ==
    /\ qev.op = "evaluated" /\ qev.scr = "Review"
    /\ qev.res.score = 85
    /\ qev.req.item.id = 1
    /\ qev.req.item \notin wrongAnswers
    /\ qev.req.item \notin stWrongAnswers
    /\ \E w \in wrongAnswers : w.id = 2 /\ w \in stWrongAnswers

\* The question on screen is the same before and after the step
SameQuestion ==
    /\ q.step = "quiz" /\ q'.step = "quiz"
    /\ q'.scr = q.scr /\ q'.sess = q.sess /\ q'.idx = q.idx

C18_EndOnLastNext ==
    [][(qev'.op = "next" /\ q.step = "quiz")
            => /\ (q.idx = q.len) <=> (q'.step = "setup")
               /\ q'.step = "setup" => q'.summary = Summary(q.score)
               /\ q'.idx <= q'.len]_vars

\* C22: on every quiz screen the score the final summary reports is the
\* number of questions of the session that were passed, and so never
\* exceeds the number of questions of the session.
C22_SummaryWithinSession ==
    q.summary.shown => q.summary.score <= q.len

\* The generated sentence (translate mode: question) a screen displays
Displayed(s) == IF s.mode = "translate" THEN s.question ELSE s.sentence

\* C24: a displayed generated sentence or translation question was produced
\* for the question at the session's index, and the response of an
\* evaluation changes the result, the score or the wrong-answer log only
\* when the call was started for that question of that session.
C24_ResponsesAreCurrent ==
    [][/\ (q'.step = "quiz" /\ q'.scr \in {"Practice", "Treasury"})
            => Displayed(q') \in {NoQuestion, <<q'.sess, q'.idx>>}
       /\ (evalReq /= NoReq /\ evalReq' = NoReq /\ q.step = "quiz"
              /\ (q'.result /= q.result \/ q'.score /= q.score
                    \/ wrongAnswers' /= wrongAnswers))
            => (evalReq.sess = q.sess /\ evalReq.idx = q.idx)]_vars

\* A step on which an evaluation returns the result of a failed AI call
FailedEvaluation ==
    /\ evalReq /= NoReq /\ evalReq' = NoReq
    /\ qev'.op = "evaluated" /\ qev'.res.feedback = "error"

\* C28: when the AI call behind an evaluation fails, the submission is not
\* graded: the wrong-answer log and the score are unchanged and the question
\* has no result, so it stays answerable.
C28_FailedCallNotGraded ==
    [][FailedEvaluation
         => /\ wrongAnswers' = wrongAnswers
            /\ q'.score = q.score
            /\ q'.result = q.result]_vars


--------------------------------------------------------------------------
(***************************************************************************)
(* Start-up and the store's mutating operations (store/index.ts, the App   *)
(* effect of unnamed/part_000).  The app is opened over what an earlier    *)
(* session left in AsyncStorage: under each key nothing, an empty          *)
(* collection (default settings) or a saved one.  loadData reads the       *)
(* blacklist, settings and wrong-answer keys; initializeApp then reads the *)
(* word bank through StorageService and adds every item with addWord,      *)
(* addSource, addSong.  Here words, sources and songs are the lists        *)
(* themselves (sequences), so that an item added twice shows.  A read may  *)
(* fail: loadData's catch only clears isLoading, a StorageService get      *)
(* returns [].  An operation of the store is one step: set and, where the  *)
(* code has one, the setItem of the whole collection.                      *)
(***************************************************************************)

MaxOps == 1   \* store operations after start-up

StorageKeys == {"words", "sources", "songs", "blacklist", "settings", "wrongAnswers"}

\* What a first launch finds, and what an earlier session saved
Fresh ==
    [words |-> <<>>, sources |-> <<>>, songs |-> <<>>, blacklist |-> {},
     settings |-> DEFAULT_SETTINGS, wrongAnswers |-> {}]

Saved ==
    [words |-> <<[id |-> 1, word |-> "cat", isMastered |-> FALSE],
                 [id |-> 2, word |-> "dog", isMastered |-> TRUE]>>,
     sources |-> <<[id |-> 1, wordId |-> 1, songTitle |-> "A"],
                   [id |-> 2, wordId |-> 2, songTitle |-> "A"]>>,
     songs |-> <<[id |-> 1, title |-> "A"]>>,
     blacklist |-> {[id |-> 0, word |-> "the"]},
     settings |-> [apiProvider |-> "nvidia", aiStyle |-> "poetic"],
     wrongAnswers |-> {[id |-> 0, word |-> <<0, "w1">>, userAnswer |-> "x",
                        correctAnswer |-> "w1", score |-> 40, errorType |-> "fill"]}]

\* The value under a key when the app is opened
StoredAtLaunch(k) == IF k \in absent THEN {Fresh[k]} ELSE {Fresh[k], Saved[k]}

BootInit ==
    /\ absent \in SUBSET StorageKeys
    /\ stWords \in StoredAtLaunch("words")
    /\ stSources \in StoredAtLaunch("sources")
    /\ stSongs \in StoredAtLaunch("songs")
    /\ stBlacklist \in StoredAtLaunch("blacklist")
    /\ stSettings \in StoredAtLaunch("settings")
    /\ stWrongAnswers \in StoredAtLaunch("wrongAnswers")
    /\ words = <<>> /\ sources = <<>> /\ songs = <<>>
    /\ blacklist = {} /\ wrongAnswers = {}
    /\ settings = DEFAULT_SETTINGS
    /\ isLoading = TRUE
    /\ boot = [pc |-> "loadData", op |-> "none", failed |-> {}, nextId |-> 1]
    /\ io = NoCall
    /\ factory = FactoryIdle /\ alert = NoAlert /\ runs = 0 /\ sop = "none"
    /\ q = QuizRest("Arena", 0) /\ evalReq = NoReq /\ genReqs = {}
    /\ waNext = 1 /\ qev = NoEvent
    /\ AIInit /\ ParseIdle

\* What a step of this component leaves alone besides the store
bootOthers ==
    <<aiVars, parseVars, factory, alert, runs, sop, q, evalReq, genReqs, qev, io>>

Loaded_fallback(key, stored, fallback) == fallback

\* data ? JSON.parse(data) : fallback, for the item under key
Loaded(key, stored, fallback) == IF key \in absent THEN fallback ELSE stored

\* { ...a, ...b }
Spread(a, b) ==
    [k \in DOMAIN a \cup DOMAIN b |-> IF k \in DOMAIN b THEN b[k] ELSE a[k]]

\* loadData: the reads of Promise.all succeed and the store is set, or one
\* of them throws and the catch block only clears isLoading
LoadData(ok) ==
    /\ boot.pc = "loadData"
    /\ IF ok
       THEN /\ blacklist' = Loaded("blacklist", stBlacklist, {})
            /\ wrongAnswers' = Loaded("wrongAnswers", stWrongAnswers, {})
            /\ settings' = Loaded("settings", Spread(DEFAULT_SETTINGS, stSettings),
                                  DEFAULT_SETTINGS)
       ELSE UNCHANGED <<blacklist, wrongAnswers, settings>>
    /\ isLoading' = FALSE
    /\ boot' = [boot EXCEPT !.pc = "getLists", !.op = "loadData",
                            !.failed = IF ok THEN {}
                                       ELSE {"blacklist", "settings", "wrongAnswers"}]
    /\ UNCHANGED <<words, sources, songs, stWords, stSources, stSongs,
                   stBlacklist, stSettings, stWrongAnswers, waNext, absent>>
    /\ UNCHANGED bootOthers

\* initializeApp after loadData: getWords, getSources, getSongs (a get
\* that fails returns []), then addWord, addSource, addSong for each item
InitializeApp(failed) ==
    /\ boot.pc = "getLists"
    /\ words' = words \o (IF "words" \in failed THEN <<>>
                          ELSE Loaded("words", stWords, <<>>))
    /\ sources' = sources \o (IF "sources" \in failed THEN <<>>
                              ELSE Loaded("sources", stSources, <<>>))
    /\ songs' = songs \o (IF "songs" \in failed THEN <<>>
                          ELSE Loaded("songs", stSongs, <<>>))
    /\ boot' = [boot EXCEPT !.pc = "ready", !.op = "initializeApp",
                            !.failed = @ \cup failed]
    /\ UNCHANGED <<stWords, stSources, stSongs, blacklist, stBlacklist, settings,
                   stSettings, wrongAnswers, stWrongAnswers, waNext, isLoading, absent>>
    /\ UNCHANGED bootOthers

\* A store operation is called once the app is up
Ready(op) ==
    /\ boot.pc = "ready"
    /\ boot.nextId <= MaxOps
    /\ boot' = [boot EXCEPT !.op = op, !.nextId = @ + 1]
    /\ UNCHANGED isLoading
    /\ UNCHANGED bootOthers

\* addWord: set((state) => ({ words: [...state.words, word] }))
AddWord ==
    /\ Ready("addWord")
    /\ words' = Append(words, [id |-> 2 + boot.nextId, word |-> "new",
                               isMastered |-> FALSE])
    /\ UNCHANGED <<sources, songs, stWords, stSources, stSongs, blacklist,
                   stBlacklist, settings, stSettings, wrongAnswers,
                   stWrongAnswers, waNext, absent>>

\* addSource: set((state) => ({ sources: [...state.sources, source] }))
AddSource ==
    /\ Ready("addSource")
    /\ sources' = Append(sources, [id |-> 2 + boot.nextId, wordId |-> 1,
                                   songTitle |-> "B"])
    /\ UNCHANGED <<words, songs, stWords, stSources, stSongs, blacklist,
                   stBlacklist, settings, stSettings, wrongAnswers,
                   stWrongAnswers, waNext, absent>>

\* addSong: set((state) => ({ songs: [...state.songs, song] }))
AddSong ==
    /\ Ready("addSong")
    /\ songs' = Append(songs, [id |-> 2 + boot.nextId, title |-> "B"])
    /\ UNCHANGED <<words, sources, stWords, stSources, stSongs, blacklist,
                   stBlacklist, settings, stSettings, wrongAnswers,
                   stWrongAnswers, waNext, absent>>

\* updateWord(id, { isMastered: !isMastered }): words.map(...)
UpdateWord(id) ==
    /\ Ready("updateWord")
    /\ words' = [i \in 1..Len(words) |->
                    IF words[i].id = id
                    THEN [words[i] EXCEPT !.isMastered = ~@] ELSE words[i]]
    /\ UNCHANGED <<sources, songs, stWords, stSources, stSongs, blacklist,
                   stBlacklist, settings, stSettings, wrongAnswers,
                   stWrongAnswers, waNext, absent>>

\* addToBlacklist(word): [...get().blacklist, newItem], set, setItem
AddToBlacklist(word) ==
    /\ Ready("addToBlacklist")
    /\ LET newBlacklist == blacklist \cup {[id |-> boot.nextId, word |-> Lower(word)]}
       IN  blacklist' = newBlacklist /\ stBlacklist' = newBlacklist
    /\ absent' = absent \ {"blacklist"}
    /\ UNCHANGED <<words, sources, songs, stWords, stSources, stSongs,
                   settings, stSettings, wrongAnswers, stWrongAnswers, waNext>>

\* removeFromBlacklist(id): filter, set, setItem
RemoveFromBlacklist(id) ==
    /\ Ready("removeFromBlacklist")
    /\ LET newBlacklist == {item \in blacklist : item.id /= id}
       IN  blacklist' = newBlacklist /\ stBlacklist' = newBlacklist
    /\ absent' = absent \ {"blacklist"}
    /\ UNCHANGED <<words, sources, songs, stWords, stSources, stSongs,
                   settings, stSettings, wrongAnswers, stWrongAnswers, waNext>>

\* updateSettings(updates): { ...get().settings, ...updates }, set, setItem
UpdateSettings(updates) ==
    /\ Ready("updateSettings")
    /\ settings' = Spread(settings, updates)
    /\ stSettings' = Spread(settings, updates)
    /\ absent' = absent \ {"settings"}
    /\ UNCHANGED <<words, sources, songs, stWords, stSources, stSongs,
                   blacklist, stBlacklist, wrongAnswers, stWrongAnswers, waNext>>

\* addWrongAnswer, removeWrongAnswer, clearWrongAnswers
WrongAnswerOp ==
    /\ \/ /\ Ready("addWrongAnswer")
          /\ AddWrongAnswer(WrongAnswer(<<0, "w2">>, "x", "w2", 0, "4choice"))
       \/ /\ Ready("removeWrongAnswer")
          /\ \E w \in wrongAnswers : RemoveWrongAnswer(w.id)
       \/ /\ Ready("clearWrongAnswers")
          /\ wrongAnswers' = {} /\ stWrongAnswers' = {}
          /\ UNCHANGED waNext
    /\ absent' = absent \ {"wrongAnswers"}
    /\ UNCHANGED <<words, sources, songs, stWords, stSources, stSongs,
                   blacklist, stBlacklist, settings, stSettings>>

BootNext ==
    \/ \E ok \in BOOLEAN : LoadData(ok)
    \/ \E failed \in SUBSET {"words", "sources", "songs"} : InitializeApp(failed)
    \/ AddWord
    \/ AddSource
    \/ AddSong
    \/ \E i \in 1..Len(words) : UpdateWord(words[i].id)
    \/ \E word \in Forms : AddToBlacklist(word)
    \/ \E item \in blacklist : RemoveFromBlacklist(item.id)
    \/ \E updates \in {[aiStyle |-> "poetic"], [apiProvider |-> "nvidia"]} :
          UpdateSettings(updates)
    \/ WrongAnswerOp

SpecBoot == BootInit /\ [][BootNext]_vars

\* C14: every mutating operation of the store writes the whole updated
\* collection: when the operation has completed, what is persisted under
\* the collection's key equals the collection in memory.
C14_OpsPersist ==
    [][/\ boot'.op \in {"addWord", "updateWord"} => stWords' = words'
       /\ boot'.op = "addSource" => stSources' = sources'
       /\ boot'.op = "addSong" => stSongs' = songs'
       /\ boot'.op \in {"addToBlacklist", "removeFromBlacklist"}
            => (stBlacklist' = blacklist' /\ "blacklist" \notin absent')
       /\ boot'.op \in {"addWrongAnswer", "removeWrongAnswer", "clearWrongAnswers"}
            => (stWrongAnswers' = wrongAnswers' /\ "wrongAnswers" \notin absent')
       /\ boot'.op = "updateSettings"
            => (stSettings' = settings' /\ "settings" \notin absent')]_vars

\* The collection of the store kept under a key, and what is persisted
InMemory(k) ==
    CASE k = "words" -> words [] k = "sources" -> sources [] k = "songs" -> songs
      [] k = "blacklist" -> blacklist [] k = "settings" -> settings
      [] k = "wrongAnswers" -> wrongAnswers

Persisted(k) ==
    CASE k = "words" -> stWords [] k = "sources" -> stSources [] k = "songs" -> stSongs
      [] k = "blacklist" -> stBlacklist [] k = "settings" -> stSettings
      [] k = "wrongAnswers" -> stWrongAnswers

--------------------------------------------------------------------------
(***************************************************************************)
(* StorageService (src/App.tsx 30-92): save* writes JSON.stringify of the  *)
(* list under the collection's key, get* returns JSON.parse of the item or *)
(* [] when there is none; both catch what AsyncStorage throws (save then   *)
(* writes nothing, get returns []).  Here stWords, stSources and stSongs   *)
(* hold the JSON text: the list of the objects' members.  An item's fields *)
(* are strings; a field a screen filled from a property the AI's item did  *)
(* not have (FactoryScreen: meaning, example) is undefined.                *)
(***************************************************************************)

MaxItems == 2   \* longest list saved

Undefined == "undefined"

\* Items of the lists the screens save
ItemsOf(key) ==
    IF key = "words"
    THEN {[id |-> i, word |-> "cat", example |-> "e"] : i \in {"1", "2"}}
    ELSE IF key = "sources"
    THEN {[id |-> "1", wordId |-> "1", lyricTranslated |-> t] : t \in {"t", Undefined}}
    ELSE {[id |-> "1", title |-> "A"]}

ListsOf(key) == UNION {[1..n -> ItemsOf(key)] : n \in 0..MaxItems}

\* The members JSON.stringify writes for an object: a property whose value
\* is undefined is left out
Members(item) == {<<k, item[k]>> : k \in {f \in DOMAIN item : item[f] /= Undefined}}

Stringify_first(list) ==
    [i \in 1..(IF Len(list) > 0 THEN 1 ELSE 0) |-> Members(list[i])]

\* JSON.stringify(list)
Stringify(list) == [i \in 1..Len(list) |-> Members(list[i])]

\* JSON.parse(data): an object with the members of the text
ParseStored(data) ==
    [i \in 1..Len(data) |->
        [k \in {m[1] : m \in data[i]} |-> (CHOOSE m \in data[i] : m[1] = k)[2]]]

\* AsyncStorage.getItem(key): the text, or null
StoredText(key) ==
    IF key \in absent THEN [null |-> TRUE, data |-> <<>>]
    ELSE [null |-> FALSE,
          data |-> IF key = "words" THEN stWords
                   ELSE IF key = "sources" THEN stSources ELSE stSongs]

\* saveWords / saveSources / saveSongs: setItem(KEY, JSON.stringify(list)),
\* or the catch block when setItem throws
Save(key, list, throws) ==
    /\ stWords' = IF key = "words" /\ ~throws THEN Stringify(list) ELSE stWords
    /\ stSources' = IF key = "sources" /\ ~throws THEN Stringify(list) ELSE stSources
    /\ stSongs' = IF key = "songs" /\ ~throws THEN Stringify(list) ELSE stSongs
    /\ absent' = IF throws THEN absent ELSE absent \ {key}
    /\ io' = [op |-> "save", key |-> key, failed |-> throws, arg |-> list, ret |-> <<>>]
    /\ UNCHANGED <<words, sources, songs, factory, alert, runs, sop, blacklist,
                   stBlacklist, settings, stSettings, isLoading, boot>>
    /\ UNCHANGED <<aiVars, parseVars, quizVars>>

\* getWords / getSources / getSongs: data ? JSON.parse(data) : [], or [] from
\* the catch block when getItem throws.  io keeps what the save just before
\* wrote when that was a save under the same key.
Get(key, throws) ==
    /\ io' = [op |-> IF io.op = "save" /\ io.key = key THEN "saveThenGet" ELSE "get",
              key |-> key,
              failed |-> throws \/ (io.op = "save" /\ io.failed),
              arg |-> IF io.op = "save" /\ io.key = key THEN io.arg ELSE <<>>,
              ret |-> IF throws \/ StoredText(key).null THEN <<>>
                      ELSE ParseStored(StoredText(key).data)]
    /\ UNCHANGED <<words, sources, songs, stWords, stSources, stSongs, factory,
                   alert, runs, sop, blacklist, stBlacklist, settings, stSettings,
                   isLoading, absent, boot>>
    /\ UNCHANGED <<aiVars, parseVars, quizVars>>

StorageNext ==
    \/ \E key \in {"words", "sources", "songs"}, throws \in BOOLEAN :
          \E list \in ListsOf(key) : Save(key, list, throws)
    \/ \E key \in {"words", "sources", "songs"}, throws \in BOOLEAN : Get(key, throws)

\* A first launch: no key is present
StorageInit ==
    /\ words = {} /\ sources = {} /\ songs = {}
    /\ stWords = <<>> /\ stSources = <<>> /\ stSongs = <<>>
    /\ factory = FactoryIdle /\ alert = NoAlert /\ runs = 0 /\ sop = "none"
    /\ blacklist = {} /\ stBlacklist = {}
    /\ settings = DEFAULT_SETTINGS /\ stSettings = DEFAULT_SETTINGS
    /\ isLoading = FALSE
    /\ absent = {"words", "sources", "songs"}
    /\ boot = BootDone
    /\ io = NoCall
    /\ AIInit /\ ParseIdle /\ QuizInit

SpecStorage == StorageInit /\ [][StorageNext]_vars

Representable(list) ==
    \A i \in 1..Len(list) : \A f \in DOMAIN list[i] : list[i][f] /= Undefined

--------------------------------------------------------------------------
(***************************************************************************)
(* The wrong-answer log while words and songs are deleted.  Arena,         *)
(* Treasury and History are tabs that stay mounted: a challenge goes on    *)
(* over the list startChallenge built while a word of it is deleted on     *)
(* another tab.  The specification puts the Arena handlers and the         *)
(* deletion dialogs side by side over the bank of four words; the          *)
(* challenges are 4-choice, their list is in one order, and any of its     *)
(* words can be deleted.                                                   *)
(***************************************************************************)

LogNext ==
    \/ ArenaStartChallenge("4choice",
                           Shuffled(words, Min({WordCount, Cardinality(words)})))
    \/ \E o \in Options : ArenaHandleSelectOption(o)
    \/ ArenaNextChallenge
    \/ ArenaExit
    \/ \E song \in songs : HandleDeleteSong(song)
    \/ \E w \in words : HandleDeleteWord(w)
    \/ \E ids \in Selections : HandleBatchDelete(ids)
    \/ CancelAlert
    \/ ConfirmDeleteSong
    \/ ConfirmDeleteWords

SpecLog == QuizSpecInit /\ [][LogNext]_vars

\* The step is the Delete button of a word, batch or song dialog
DeleteConfirmed ==
    /\ alert.kind \in {"word", "batch", "song"}
    /\ sop' \in {"deleteWords", "deleteSong"}
    /\ alert' = NoAlert

\* wordId of an entry of the running challenge: currentChallenge.word.id
WordIdOf(entry) == q.items[entry.word[2]].id

\* C21: deleting a word (single or batch) or a song leaves the wrong-answer
\* log unchanged, in the store and persisted, and every entry is created
\* for a word that is in the word bank at that moment.
C21_LogKeptOnDelete ==
    [][/\ DeleteConfirmed
            => wrongAnswers' = wrongAnswers /\ stWrongAnswers' = stWrongAnswers
       /\ \A entry \in wrongAnswers' \ wrongAnswers :
            entry.word[1] = q.sess => WordIdOf(entry) \in {w.id : w \in words}]_vars

--------------------------------------------------------------------------
(***************************************************************************)
(* One fill question and its Submit button, with the render as a step of   *)
(* its own.  handleSubmit (Arena), submitAnswer (Practice),                *)
(* submitPracticeAnswer (Treasury) and handleSubmitAnswer (Review) test    *)
(* nothing but the input before setIsEvaluating(true) and the await: the   *)
(* button is disabled by the isEvaluating of the last render, and the      *)
(* handler a tap runs is the closure of that render.  Here q holds the     *)
(* state (score, isEvaluating, result), the values of the last render and  *)
(* the number of taps; genReqs holds the evaluations in flight, each with  *)
(* the score of its closure.                                               *)
(***************************************************************************)

MaxTaps == 2    \* taps on Submit

TapRest(s) ==
    [scr |-> s, score |-> 0, evaluating |-> FALSE, result |-> "none", taps |-> 0,
     shown |-> [score |-> 0, evaluating |-> FALSE, result |-> "none"]]

TapInit ==
    /\ \E s \in Screens : q = TapRest(s)
    /\ evalReq = NoReq /\ genReqs = {}
    /\ wrongAnswers = {} /\ stWrongAnswers = {} /\ waNext = 1
    /\ qev = NoEvent
    /\ BankLoaded /\ AIInit /\ ParseIdle /\ PersistIdle

\* A tap on Submit runs the handler of the last render up to its await;
\* the button of that render is there when no result is shown and is
\* enabled when its isEvaluating is false
SubmitTapped ==
    /\ q.shown.result = "none" /\ ~q.shown.evaluating
    /\ q.taps < MaxTaps
    /\ q' = [q EXCEPT !.evaluating = TRUE, !.taps = q.taps + 1]
    /\ genReqs' = genReqs \cup {[tap |-> q.taps + 1, score |-> q.shown.score]}
    /\ UNCHANGED <<evalReq, qev>>
    /\ LogUnchanged
    /\ UNCHANGED notQuiz

\* React renders the screen with the current state
Rendered ==
    /\ q.shown /= [score |-> q.score, evaluating |-> q.evaluating, result |-> q.result]
    /\ q' = [q EXCEPT !.shown = [score |-> q.score, evaluating |-> q.evaluating,
                                 result |-> q.result]]
    /\ UNCHANGED <<evalReq, genReqs, qev>>
    /\ LogUnchanged
    /\ UNCHANGED notQuiz

\* The handler after its await: Practice drops an error result and counts
\* with setPracticeScore(prev => prev + 1), the others with the score of
\* the closure; a failed result is appended to the log except on Review;
\* finally { setIsEvaluating(false) }
EvaluationReturns(req, r) ==
    /\ req \in genReqs
    /\ genReqs' = genReqs \ {req}
    /\ r.error \/ Passes(r) \/ waNext <= MaxWrong
    /\ IF q.scr = "Practice" /\ r.error
       THEN /\ q' = [q EXCEPT !.evaluating = FALSE]
            /\ LogUnchanged
       ELSE IF Passes(r)
       THEN /\ q' = [q EXCEPT !.result = "pass", !.evaluating = FALSE,
                              !.score = IF q.scr = "Practice" THEN q.score + 1
                                        ELSE req.score + 1]
            /\ LogUnchanged
       ELSE /\ q' = [q EXCEPT !.result = "fail", !.evaluating = FALSE]
            /\ IF q.scr = "Review" THEN LogUnchanged
               ELSE AddWrongAnswer(WrongAnswer(<<1, 1>>, "x", "word", r.score, "fill"))
    /\ UNCHANGED <<evalReq, qev>>
    /\ UNCHANGED notQuiz

TapNext ==
    \/ SubmitTapped
    \/ Rendered
    \/ \E req \in genReqs, r \in AnswerResults : EvaluationReturns(req, r)

SpecTap == TapInit /\ [][TapNext]_vars

\* C23: for one question, under every interleaving of submit taps, renders
\* and evaluation responses, the running score increases by at most 1 and
\* at most one WrongAnswer entry is appended.
C23_GradedOnce ==
    q.score <= 1 /\ Cardinality(wrongAnswers) <= 1
--------------------------------------------------------------------------
(***************************************************************************)
(* The option lists of the 4-choice questions (ArenaScreen startChallenge, *)
(* PracticeScreen generateOptions, generatePracticeSentence for Treasury). *)
(* q holds the session's word list, the option lists and, for Treasury,    *)
(* practiceSentence; genReqs holds the generatePracticeSentence calls in   *)
(* flight.                                                                 *)
(***************************************************************************)
Distractors == 3    \* slice(0, 3): the other words put next to the word

\* [word, ...shuffledOthers].sort(() => Math.random() - 0.5) with
\* shuffledOthers = others.sort(random).slice(0, 3): one list for every
\* choice of the others, in one of its orders
OptionLists(word, others) ==
    {Shuffled({word} \cup picked, Cardinality({word} \cup picked)) :
        picked \in {p \in SUBSET others :
                      Cardinality(p) = Min({Distractors, Cardinality(others)})}}

\* allWords.filter(w => w.id !== correctWord.id) ... .map(w => w.word)
OtherForms(correctWord, allWords) ==
    {w.word : w \in {v \in allWords : v.id /= correctWord.id}}

\* generateOptions(correctWord, allWords)
generateOptions(correctWord, allWords) ==
    OptionLists(correctWord.word, OtherForms(correctWord, allWords))

\* How generatePracticeSentence ends: the outcomes of its interpretation of
\* the text ("parsed", "noSpan", "caught" for a text JSON.parse rejects),
\* and "error" when callAI returned an error
SentenceOutcomes == {"parsed", "noSpan", "caught", "error"}

\* The result of generatePracticeSentence(word, meaning, existingWords,
\* settings): the options are built before the call and returned with every outcome but
\* the catch block's, which returns options: []
PracticeSentenceResult(word, existingWords, outcome) ==
    {[sentence |-> outcome = "parsed",
      options |-> IF outcome = "caught" THEN <<>> ELSE options,
      error |-> outcome \in {"error", "caught"}] :
        options \in OptionLists(word, {w \in existingWords : Lower(w) /= Lower(word)})}

NoSentence == [sentence |-> FALSE, options |-> <<>>, error |-> FALSE]

OptionScreens == {"Arena", "Practice", "Treasury"}

OptionRest(s) ==
    [scr |-> s, step |-> "setup", list |-> <<>>, idx |-> 0, score |-> 0,
     result |-> "none", challenges |-> <<>>, options |-> <<>>,
     loaded |-> FALSE, practiceSentence |-> NoSentence]

OptionInit ==
    /\ \E s \in OptionScreens : q = OptionRest(s)
    /\ evalReq = NoReq /\ genReqs = {}
    /\ wrongAnswers = {} /\ stWrongAnswers = {} /\ waNext = 1
    /\ qev = NoEvent
    /\ BankLoaded /\ AIInit /\ ParseIdle /\ PersistIdle

\* The call loadPracticeSentence(word, allWords) starts
SentenceRequest(list, i) ==
    [idx |-> i, word |-> list[i].word,
     otherWords |-> OtherForms(list[i], {list[j] : j \in 1..Len(list)})]

\* ArenaScreen startChallenge in 4-choice mode: the options of every
\* challenge are taken from all the words of the store
StartChallengeOptions(list) ==
    /\ q.scr = "Arena" /\ q.step = "setup"
    /\ Cardinality(words) >= MinWords
    /\ list \in Shuffles(words, Min({WordCount, Cardinality(words)}))
    /\ \E chs \in [1..Len(list) -> UNION {generateOptions(w, words) : w \in words}] :
          /\ \A i \in 1..Len(list) : chs[i] \in generateOptions(list[i], words)
          /\ q' = [q EXCEPT !.step = "quiz", !.list = list, !.idx = 1, !.score = 0,
                            !.result = "none", !.challenges = chs]
    /\ UNCHANGED <<evalReq, genReqs, qev>>
    /\ LogUnchanged
    /\ UNCHANGED notQuiz

\* PracticeScreen startPractice in 4-choice mode with questionCount = n:
\* the options are taken from the n words of the session
StartPracticeOptions(n, list) ==
    /\ q.scr = "Practice" /\ q.step = "setup"
    /\ Cardinality(words) >= MinWords
    /\ n <= Cardinality(words)
    /\ list \in Shuffles(words, Min({n, Cardinality(words)}))
    /\ Cardinality(genReqs) < MaxPending
    /\ \E options \in generateOptions(list[1], {list[j] : j \in 1..Len(list)}) :
          q' = [q EXCEPT !.step = "quiz", !.list = list, !.idx = 1, !.score = 0,
                         !.result = "none", !.options = options, !.loaded = FALSE]
    /\ genReqs' = genReqs \cup {SentenceRequest(list, 1)}
    /\ UNCHANGED <<evalReq, qev>>
    /\ LogUnchanged
    /\ UNCHANGED notQuiz

\* TreasuryScreen startPractice('4choice'): all the available words
StartTreasuryOptions(list) ==
    /\ q.scr = "Treasury" /\ q.step = "setup"
    /\ Cardinality(words) >= MinWords
    /\ list \in Shuffles(words, Cardinality(words))
    /\ Cardinality(genReqs) < MaxPending
    /\ q' = [q EXCEPT !.step = "quiz", !.list = list, !.idx = 1, !.score = 0,
                      !.result = "none", !.practiceSentence = NoSentence,
                      !.loaded = FALSE]
    /\ genReqs' = genReqs \cup {SentenceRequest(list, 1)}
    /\ UNCHANGED <<evalReq, qev>>
    /\ LogUnchanged
    /\ UNCHANGED notQuiz

\* loadPracticeSentence after its await: Practice keeps the result unless
\* it has an error and shows its own options; Treasury calls
\* setPracticeSentence(result) whatever the result is
SentenceReturns(req, outcome) ==
    /\ req \in genReqs
    /\ genReqs' = genReqs \ {req}
    /\ \E result \in PracticeSentenceResult(req.word, req.otherWords, outcome) :
          q' = IF q.scr = "Treasury"
               THEN [q EXCEPT !.practiceSentence = result, !.loaded = TRUE]
               ELSE IF result.error THEN q
               ELSE [q EXCEPT !.practiceSentence = result, !.loaded = TRUE]
    /\ UNCHANGED <<evalReq, qev>>
    /\ LogUnchanged
    /\ UNCHANGED notQuiz

\* The option buttons on the screen: Arena's challenge options, Practice's
\* options, Treasury's practiceSentence.options once practiceSentence is set
Offered(s) ==
    IF s.scr = "Arena" THEN s.challenges[s.idx]
    ELSE IF s.scr = "Practice" THEN s.options
    ELSE s.practiceSentence.options

IsOffered(s) == s.step = "quiz" /\ (s.scr = "Treasury" => s.loaded)

OptionsOnScreen(s) ==
    IF IsOffered(s) THEN {Offered(s)[i] : i \in 1..Len(Offered(s))} ELSE {}

\* A tap on an option: the result and the score; Arena and Practice add
\* a WrongAnswer for another word
SelectOption(o) ==
    /\ o \in OptionsOnScreen(q)
    /\ q.result = "none"
    /\ (o = q.list[q.idx].word \/ q.scr = "Treasury") \/ waNext <= MaxWrong
    /\ IF o = q.list[q.idx].word
       THEN /\ q' = [q EXCEPT !.result = "pass", !.score = q.score + 1]
            /\ LogUnchanged
       ELSE /\ q' = [q EXCEPT !.result = "fail"]
            /\ IF q.scr = "Treasury" THEN LogUnchanged
               ELSE AddWrongAnswer(WrongAnswer(<<1, q.idx>>, o, "word", 0, "4choice"))
    /\ UNCHANGED <<evalReq, genReqs, qev>>
    /\ UNCHANGED notQuiz

\* Next after an answer: the next word with its options, or the end
NextOptions ==
    /\ q.step = "quiz" /\ q.result /= "none"
    /\ (q.idx < Len(q.list) /\ q.scr /= "Arena") => Cardinality(genReqs) < MaxPending
    /\ IF q.idx = Len(q.list)
       THEN /\ q' = OptionRest(q.scr)
            /\ UNCHANGED genReqs
       ELSE IF q.scr = "Arena"
       THEN /\ q' = [q EXCEPT !.idx = q.idx + 1, !.result = "none"]
            /\ UNCHANGED genReqs
       ELSE /\ \E options \in generateOptions(q.list[q.idx + 1],
                                              {q.list[j] : j \in 1..Len(q.list)}) :
                 q' = [q EXCEPT !.idx = q.idx + 1, !.result = "none",
                                !.loaded = FALSE,
                                !.practiceSentence = NoSentence,
                                !.options = IF q.scr = "Practice" THEN options
                                            ELSE q.options]
            /\ genReqs' = genReqs \cup {SentenceRequest(q.list, q.idx + 1)}
    /\ UNCHANGED <<evalReq, qev>>
    /\ LogUnchanged
    /\ UNCHANGED notQuiz

OptionNext ==
    \/ StartChallengeOptions(Shuffled(words, Min({WordCount, Cardinality(words)})))
    \/ \E n \in 1..MaxQuestions :
          StartPracticeOptions(n, Shuffled(words, Min({n, Cardinality(words)})))
    \/ StartTreasuryOptions(Shuffled(words, Cardinality(words)))
    \/ \E req \in genReqs, outcome \in SentenceOutcomes : SentenceReturns(req, outcome)
    \/ \E o \in OptionsOnScreen(q) : SelectOption(o)
    \/ NextOptions

SpecOptions == OptionInit /\ [][OptionNext]_vars

\* C29: every 4-choice question on the screen offers a list of exactly 4
\* options that contains the question's word.
C29_OptionsOffered ==
    IsOffered(q) => /\ q.list[q.idx].word \in OptionsOnScreen(q)
                    /\ Len(Offered(q)) = Distractors + 1
==========================================================================
